---- MODULE Spec2Model ----
(***************************************************************************)
(* A model of the stub-index library: the declaration record store         *)
(* (StubIndex), the PSI tree (PSINode), the tree builder (PSITreeBuilder)  *)
(* and the tree operations (PSITreeOperations).                            *)
(*                                                                         *)
(* Several specifications share the variables below; each specification   *)
(* drives one component and leaves the variables of the others alone.     *)
(*   SpecIndex : StubIndex addEntry / clear / queryBy* / query             *)
(*   SpecBuild : PSITreeBuilder::buildTreeFromContent and validation       *)
(*   SpecMut   : PSITreeOperations::removeNode / moveNode on live trees     *)
(*   SpecSim   : PSITreeOperations::calculateSimilarity on pairs of trees   *)
(*   SpecDiff, SpecOpt, SpecClone : findDifferences, optimizeTree,         *)
(*               cloneSubtree                                              *)
(*   SpecTransform, SpecRewrite, SpecRemove, SpecCombine :                 *)
(*               PSITreeTransformer                                        *)
(*   SpecQuery : PSITreeQuery                                              *)
(*   SpecNav   : searches, metrics, hierarchy and path operations          *)
(*   SpecEdit  : every mutation of PSINode and PSITreeOperations           *)
(*   SpecVisit : PSIVisitor and FindVisitor                                *)
(*   SpecAgree : the store and the tree built from one parse               *)
(***************************************************************************)
EXTENDS Integers, Sequences, FiniteSets, TLC

VARIABLES
    \* ---- StubIndex (src/src/stub_index.h:66-77) ----
    all_entries,   \* std::vector<shared_ptr<StubEntry>>, insertion order
    name_index,    \* unordered_map<string, vector<...>>: a function on the keys present
    type_index,    \* unordered_map<StubType, vector<...>>
    file_index,    \* unordered_map<string, vector<...>>
    added,         \* history: the non-null records handed to addEntry since the last clear
    \* ---- PSI nodes (src/src/psi_node.h:107-117) and who owns them ----
    heap,          \* node address -> the PSINode object stored there (stale once freed)
    alive,         \* addresses of the objects not yet destroyed
    freed,         \* addresses of destroyed objects
    held,          \* addresses a caller holds an owning shared_ptr to
    crashed,       \* TRUE once a use of freed memory has faulted
    calls,         \* how many mutating tree operations were called so far
    \* ---- PSITreeBuilder ----
    stubs,         \* the records StubParser::parseCode returns for the content
    root,          \* the File node buildTreeFromContent returned (NULL before)
    \* ---- the last call and what it returned ----
    lastOp,        \* [op |-> name of the operation, ...arguments]
    result         \* the value the last call returned (NoResult for void)

idxVars == <<all_entries, name_index, type_index, file_index, added>>
memVars == <<heap, alive, freed, held, crashed, calls>>
buildVars == <<stubs, root>>
vars == <<all_entries, name_index, type_index, file_index, added,
          heap, alive, freed, held, crashed, calls, stubs, root, lastOp, result>>

NoResult == <<>>

\* a null shared_ptr<StubEntry>
NullEntry == [id |-> 0]

\* a null PSINode*
NULL == 0

(***************************************************************************)
(* Strings that are searched (file paths, file patterns) are sequences of  *)
(* characters; names are compared only for equality and emptiness.         *)
(***************************************************************************)
EmptyStr == <<>>

\* a find that only looks at offset 0
ContainsAtStartOnly(s, p) ==
    Len(p) <= Len(s) /\ SubSeq(s, 1, Len(p)) = p

\* std::string::find(p) != npos
Contains(s, p) ==
    \E i \in 0..(Len(s) - Len(p)) : SubSeq(s, i + 1, i + Len(p)) = p

(***************************************************************************)
(* StubType and the record objects.  A record object is immutable; `id`    *)
(* is its identity (the address a shared_ptr holds), so two objects with   *)
(* equal attributes stay distinct and one object can be added twice.       *)
(* Only ClassStub, FunctionStub and VariableStub can be instantiated.      *)
(***************************************************************************)
StubType == {"CLASS", "FUNCTION", "VARIABLE", "NAMESPACE", "ENUM", "TYPEDEF"}

FileA  == <<"a">>
FileAB == <<"a", "b">>
FileB  == <<"b">>

StubObjects ==
    { [id |-> 1, type |-> "CLASS",    name |-> "Data",   file |-> FileA,  isStruct |-> FALSE],
      [id |-> 2, type |-> "FUNCTION", name |-> "Data",   file |-> FileAB, isStruct |-> FALSE],
      [id |-> 3, type |-> "VARIABLE", name |-> "config", file |-> FileB,  isStruct |-> FALSE],
      [id |-> 4, type |-> "CLASS",    name |-> "config", file |-> FileAB, isStruct |-> TRUE] }

\* the arguments the model hands to the queries
QueryNames == {"Data", "config", "other"}
NamePatterns == {"", "Data", "config"}
FilePatterns == {EmptyStr, FileA, FileB, FileAB}
QueryFiles == {FileA, FileB, FileAB, <<"c">>}

\* QueryFilter (stub_index.h:24-33); the constructor's default kind is CLASS
QueryFilter == [type_filter : StubType, name_pattern : NamePatterns, file_pattern : FilePatterns]

\* the longest insertion list the model builds
MaxEntries == 3

\* the elements of a sequence
Range(q) == {q[i] : i \in 1..Len(q)}

\* how often x occurs in the sequence q
Occurrences(q, x) == Cardinality({i \in 1..Len(q) : q[i] = x})

(***************************************************************************)
(* unordered_map helpers                                                   *)
(***************************************************************************)
\* m[k].push_back(e): operator[] creates the bucket when the key is absent
MapPushBack(m, k, e) ==
    IF k \in DOMAIN m
    THEN [m EXCEPT ![k] = Append(@, e)]
    ELSE [x \in (DOMAIN m) \cup {k} |-> IF x = k THEN <<e>> ELSE m[x]]

EmptyMap == [x \in {} |-> <<>>]

\* it = m.find(k); it != m.end() ? it->second : {}
MapFind(m, k) == IF k \in DOMAIN m THEN m[k] ELSE <<>>

(***************************************************************************)
(* StubIndex                                                               *)
(***************************************************************************)
\* StubIndex::queryByName
queryByName(name) == MapFind(name_index, name)

\* StubIndex::queryByType
queryByType(type) == MapFind(type_index, type)

\* StubIndex::queryByFile
queryByFile(file_path) == MapFind(file_index, file_path)

\* the name branch without its kind check
RECURSIVE NameBranchNoKindCheck(_, _)
NameBranchNoKindCheck(entries, filter) ==
    IF entries = <<>> THEN <<>>
    ELSE LET entry == Head(entries)
             rest == NameBranchNoKindCheck(Tail(entries), filter)
         IN IF filter.file_pattern # EmptyStr /\ ~Contains(entry.file, filter.file_pattern)
            THEN rest
            ELSE <<entry>> \o rest

\* the loop of the name branch of StubIndex::query: skip on kind mismatch
\* (unless the kind is TYPEDEF), skip when the file pattern is not found
RECURSIVE NameBranch(_, _)
NameBranch(entries, filter) ==
    IF entries = <<>> THEN <<>>
    ELSE LET entry == Head(entries)
             rest == NameBranch(Tail(entries), filter)
         IN IF filter.type_filter # "TYPEDEF" /\ entry.type # filter.type_filter
            THEN rest
            ELSE IF filter.file_pattern # EmptyStr /\ ~Contains(entry.file, filter.file_pattern)
                 THEN rest
                 ELSE <<entry>> \o rest

\* the loop of the kind branch of StubIndex::query
RECURSIVE TypeBranch(_, _)
TypeBranch(entries, filter) ==
    IF entries = <<>> THEN <<>>
    ELSE LET entry == Head(entries)
             rest == TypeBranch(Tail(entries), filter)
         IN IF filter.file_pattern # EmptyStr /\ ~Contains(entry.file, filter.file_pattern)
            THEN rest
            ELSE <<entry>> \o rest

\* StubIndex::query
query(filter) ==
    IF filter.name_pattern # ""
    THEN NameBranch(queryByName(filter.name_pattern), filter)
    ELSE IF filter.type_filter # "CLASS"
         THEN TypeBranch(queryByType(filter.type_filter), filter)
         ELSE IF filter.file_pattern # EmptyStr
              THEN queryByFile(filter.file_pattern)
              ELSE all_entries

\* StubIndex::size
size == Len(all_entries)

\* StubIndex::empty
empty == all_entries = <<>>

\* StubIndex::addEntry; entry is a record object or the null pointer
AddEntry(entry) ==
    /\ UNCHANGED <<memVars, buildVars>>
    /\ Len(all_entries) < MaxEntries
    /\ IF entry.id = NullEntry.id
       THEN UNCHANGED idxVars
       ELSE /\ all_entries' = Append(all_entries, entry)
            /\ name_index' = MapPushBack(name_index, entry.name, entry)
            /\ type_index' = MapPushBack(type_index, entry.type, entry)
            /\ file_index' = MapPushBack(file_index, entry.file, entry)
            /\ added' = Append(added, entry)
    /\ lastOp' = [op |-> "addEntry", entry |-> entry]
    /\ result' = NoResult

\* a clear that forgets the name index
ClearKeepsNameIndex ==
    /\ UNCHANGED <<memVars, buildVars>>
    /\ type_index' = EmptyMap
    /\ file_index' = EmptyMap
    /\ all_entries' = <<>>
    /\ added' = <<>>
    /\ lastOp' = [op |-> "clear"]
    /\ result' = NoResult
    /\ UNCHANGED name_index

\* StubIndex::clear
Clear ==
    /\ UNCHANGED <<memVars, buildVars>>
    /\ name_index' = EmptyMap
    /\ type_index' = EmptyMap
    /\ file_index' = EmptyMap
    /\ all_entries' = <<>>
    /\ added' = <<>>
    /\ lastOp' = [op |-> "clear"]
    /\ result' = NoResult

QueryByName(name) ==
    /\ UNCHANGED <<memVars, buildVars>>
    /\ result' = queryByName(name)
    /\ lastOp' = [op |-> "queryByName", name |-> name]
    /\ UNCHANGED idxVars

QueryByType(type) ==
    /\ UNCHANGED <<memVars, buildVars>>
    /\ result' = queryByType(type)
    /\ lastOp' = [op |-> "queryByType", type |-> type]
    /\ UNCHANGED idxVars

QueryByFile(file_path) ==
    /\ UNCHANGED <<memVars, buildVars>>
    /\ result' = queryByFile(file_path)
    /\ lastOp' = [op |-> "queryByFile", file |-> file_path]
    /\ UNCHANGED idxVars

Query(filter) ==
    /\ UNCHANGED <<memVars, buildVars>>
    /\ result' = query(filter)
    /\ lastOp' = [op |-> "query", filter |-> filter]
    /\ UNCHANGED idxVars

Size ==
    /\ UNCHANGED <<memVars, buildVars>>
    /\ result' = size
    /\ lastOp' = [op |-> "size"]
    /\ UNCHANGED idxVars

\* no PSI node exists and no tree was built
NoTree ==
    /\ heap = EmptyMap
    /\ alive = {}
    /\ freed = {}
    /\ held = {}
    /\ crashed = FALSE
    /\ calls = 0
    /\ stubs = <<>>
    /\ root = NULL

\* StubIndex() = default: every container empty
EmptyIndex ==
    /\ all_entries = <<>>
    /\ name_index = EmptyMap
    /\ type_index = EmptyMap
    /\ file_index = EmptyMap
    /\ added = <<>>

InitIndex ==
    /\ EmptyIndex
    /\ NoTree
    /\ lastOp = [op |-> "new"]
    /\ result = NoResult

NextIndex ==
    \/ \E entry \in StubObjects \cup {NullEntry} : AddEntry(entry)
    \/ Clear
    \/ \E name \in QueryNames : QueryByName(name)
    \/ \E type \in StubType : QueryByType(type)
    \/ \E file_path \in QueryFiles : QueryByFile(file_path)
    \/ \E filter \in QueryFilter : Query(filter)
    \/ Size

SpecIndex == InitIndex /\ [][NextIndex]_vars

(***************************************************************************)
(* PSI nodes.  An object lives at an address (1, 2, ...) of the heap; a    *)
(* children list holds shared_ptr values [n |-> address, own |-> whether   *)
(* the pointer shares ownership].  A memory m is [heap, alive, freed].     *)
(***************************************************************************)
PSINodeType ==
    {"FILE", "NAMESPACE", "CLASS", "STRUCT", "FUNCTION", "VARIABLE", "ENUM", "TYPEDEF",
     "COMPOUND_STATEMENT", "IF_STATEMENT", "FOR_STATEMENT", "WHILE_STATEMENT",
     "RETURN_STATEMENT", "EXPRESSION_STATEMENT", "DECLARATION_STATEMENT",
     "BINARY_EXPRESSION", "UNARY_EXPRESSION", "CALL_EXPRESSION", "MEMBER_EXPRESSION",
     "LITERAL_EXPRESSION", "IDENTIFIER_EXPRESSION",
     "BUILTIN_TYPE", "QUALIFIED_TYPE", "POINTER_TYPE", "REFERENCE_TYPE", "ARRAY_TYPE",
     "COMMENT", "PREPROCESSOR_DIRECTIVE", "UNKNOWN"}

\* SourceLocation(path, line, column)
SourceLocation(path, l, c) == [file_path |-> path, line |-> l, column |-> c]

\* PSINode::PSINode: no parent, no children, no semantic info
PSINode(type, text, location) ==
    [type |-> type, text |-> text, location |-> location,
     parent |-> NULL, children |-> <<>>, semantic_info |-> EmptyMap, class |-> "PSINode"]

\* PSIFileNode::PSIFileNode
PSIFileNode(file_path) ==
    [PSINode("FILE", file_path, SourceLocation(file_path, 1, 1)) EXCEPT !.class = "PSIFileNode"]

\* PSIClassNode::PSIClassNode
PSIClassNode(name, location, is_struct) ==
    [PSINode(IF is_struct THEN "STRUCT" ELSE "CLASS", name, location)
        EXCEPT !.class = "PSIClassNode"]

\* PSIFunctionNode::PSIFunctionNode
PSIFunctionNode(name, location) ==
    [PSINode("FUNCTION", name, location) EXCEPT !.class = "PSIFunctionNode"]

\* PSIVariableNode::PSIVariableNode
PSIVariableNode(name, location) ==
    [PSINode("VARIABLE", name, location) EXCEPT !.class = "PSIVariableNode"]

\* PSINode::setSemanticInfo
setSemanticInfo(node, key, value) ==
    [node EXCEPT !.semantic_info =
        [k \in (DOMAIN @) \cup {key} |-> IF k = key THEN value ELSE @[k]]]

EmptyMem == [heap |-> EmptyMap, alive |-> {}, freed |-> {}]

Mem == [heap |-> heap, alive |-> alive, freed |-> freed]

\* the address std::make_shared returns next
NewAddr(m) == Cardinality(DOMAIN m.heap) + 1

\* std::make_shared<...>(...): the object is stored at NewAddr(m)
MakeShared(m, object) ==
    [heap  |-> [a \in (DOMAIN m.heap) \cup {NewAddr(m)} |->
                   IF a = NewAddr(m) THEN object ELSE m.heap[a]],
     alive |-> m.alive \cup {NewAddr(m)},
     freed |-> m.freed]

\* the addresses in a children list, in order
RECURSIVE Addresses(_)
Addresses(children) ==
    IF children = <<>> THEN <<>> ELSE <<Head(children).n>> \o Addresses(Tail(children))

\* node->getChildren() as addresses
Kids(m, node) == Addresses(m.heap[node].children)

\* an addChild that appends without setting the child's parent
addChildNoParent(m, this, child, own) ==
    IF child = NULL THEN m
    ELSE [m EXCEPT !.heap = [@ EXCEPT ![this].children = Append(@, [n |-> child, own |-> own])]]

\* PSINode::addChild: child->setParent(this); children_.push_back(child)
addChild(m, this, child, own) ==
    IF child = NULL THEN m
    ELSE LET h1 == [m.heap EXCEPT ![child].parent = this]
             h2 == [h1 EXCEPT ![this].children = Append(@, [n |-> child, own |-> own])]
         IN [m EXCEPT !.heap = h2]

(***************************************************************************)
(* PSITreeBuilder.  The parser is modelled by its result: `stubs` is the   *)
(* list parseCode returned.  The three passes accept any list, so the      *)
(* model feeds them lists in any order (parseCode itself emits the classes *)
(* first, then the functions, then the variables).                         *)
(***************************************************************************)
\* the most records a parsed content yields in the model
MaxStubs == 3

\* the records a parse can yield: two of each kind the parser creates
ParsedStubs ==
    StubObjects \cup
    { [id |-> 5, type |-> "FUNCTION", name |-> "run",   file |-> FileA, isStruct |-> FALSE],
      [id |-> 6, type |-> "VARIABLE", name |-> "count", file |-> FileA, isStruct |-> FALSE] }

\* PSITreeBuilder::createClassNode
createClassNode(entry) ==
    setSemanticInfo(PSIClassNode(entry.name, SourceLocation(entry.file, 1, 1), entry.isStruct),
                    "stub_id", entry.name)

\* PSITreeBuilder::createFunctionNode
createFunctionNode(entry) ==
    setSemanticInfo(PSIFunctionNode(entry.name, SourceLocation(entry.file, 1, 1)),
                    "stub_id", entry.name)

\* PSITreeBuilder::createVariableNode
createVariableNode(entry) ==
    setSemanticInfo(PSIVariableNode(entry.name, SourceLocation(entry.file, 1, 1)),
                    "stub_id", entry.name)

\* a class pass that also takes the function records
RECURSIVE buildClassStructureTakesFunctions(_, _, _)
buildClassStructureTakesFunctions(m, parent, list) ==
    IF list = <<>> THEN m
    ELSE LET stub == Head(list)
         IN IF stub.type \in {"CLASS", "FUNCTION"}
            THEN LET m1 == MakeShared(m, createClassNode(stub))
                 IN buildClassStructureTakesFunctions(
                        addChild(m1, parent, NewAddr(m), TRUE), parent, Tail(list))
            ELSE buildClassStructureTakesFunctions(m, parent, Tail(list))

\* PSITreeBuilder::buildClassStructure
RECURSIVE buildClassStructure(_, _, _)
buildClassStructure(m, parent, list) ==
    IF list = <<>> THEN m
    ELSE LET stub == Head(list)
         IN IF stub.type = "CLASS"
            THEN LET m1 == MakeShared(m, createClassNode(stub))
                 IN buildClassStructure(addChild(m1, parent, NewAddr(m), TRUE), parent, Tail(list))
            ELSE buildClassStructure(m, parent, Tail(list))

\* PSITreeBuilder::buildFunctionStructure
RECURSIVE buildFunctionStructure(_, _, _)
buildFunctionStructure(m, parent, list) ==
    IF list = <<>> THEN m
    ELSE LET stub == Head(list)
         IN IF stub.type = "FUNCTION"
            THEN LET m1 == MakeShared(m, createFunctionNode(stub))
                 IN buildFunctionStructure(addChild(m1, parent, NewAddr(m), TRUE), parent, Tail(list))
            ELSE buildFunctionStructure(m, parent, Tail(list))

\* PSITreeBuilder::buildVariableStructure
RECURSIVE buildVariableStructure(_, _, _)
buildVariableStructure(m, parent, list) ==
    IF list = <<>> THEN m
    ELSE LET stub == Head(list)
         IN IF stub.type = "VARIABLE"
            THEN LET m1 == MakeShared(m, createVariableNode(stub))
                 IN buildVariableStructure(addChild(m1, parent, NewAddr(m), TRUE), parent, Tail(list))
            ELSE buildVariableStructure(m, parent, Tail(list))

\* PSITreeBuilder::buildTreeFromContent, from the parse result on: the memory
\* after the call; the File node is at NewAddr(m)
buildTreeFromContent(m, file_path, list) ==
    LET m0 == MakeShared(m, PSIFileNode(file_path))
        file_node == NewAddr(m)
    IN IF list = <<>> THEN m0
       ELSE buildVariableStructure(
                buildFunctionStructure(
                    buildClassStructure(m0, file_node, list), file_node, list),
                file_node, list)

(***************************************************************************)
(* Traversals of PSITreeOperations                                         *)
(***************************************************************************)
\* PSITreeOperations::collectDescendants: the descendants in pre-order
RECURSIVE collectDescendants(_, _)
RECURSIVE collectDescendantsOf(_, _)
collectDescendants(m, node) ==
    IF node = NULL THEN <<>> ELSE collectDescendantsOf(m, Kids(m, node))

collectDescendantsOf(m, list) ==
    IF list = <<>> THEN <<>>
    ELSE <<Head(list)>> \o collectDescendants(m, Head(list)) \o collectDescendantsOf(m, Tail(list))

\* PSITreeOperations::getAllDescendants
getAllDescendants(m, node) == collectDescendants(m, node)

(***************************************************************************)
(* Validation (PSITreeOperations::getValidationErrors)                     *)
(***************************************************************************)
\* PSITreeOperations::validateNode: the diagnostics it appends, in order
RECURSIVE validateNode(_, _)
RECURSIVE validateChildren(_, _, _)
validateNode(m, node) ==
    IF node = NULL THEN <<[error |-> "Null node found"]>>
    ELSE validateChildren(m, node, Kids(m, node))

validateChildren(m, node, list) ==
    IF list = <<>> THEN <<>>
    ELSE (IF m.heap[Head(list)].parent # node
          THEN <<[error |-> "Parent-child inconsistency at node", text |-> m.heap[node].text]>>
          ELSE <<>>)
         \o validateNode(m, Head(list))
         \o validateChildren(m, node, Tail(list))

\* PSITreeOperations::getValidationErrors
getValidationErrors(m, node) == validateNode(m, node)

\* PSITreeOperations::validateTree
validateTree(m, node) == getValidationErrors(m, node) = <<>>

(***************************************************************************)
(* SpecBuild: a content is parsed into `stubs`, the tree is built from it  *)
(* once, and the built tree is validated.                                  *)
(***************************************************************************)
\* all sequences over S of length at most n
RECURSIVE SeqsUpTo(_, _)
SeqsUpTo(S, n) ==
    IF n = 0 THEN {<<>>}
    ELSE LET shorter == SeqsUpTo(S, n - 1)
         IN shorter \cup {Append(q, x) : q \in shorter, x \in S}

BuildTreeFromContent(file_path) ==
    /\ root = NULL
    /\ LET m == buildTreeFromContent(Mem, file_path, stubs)
       IN /\ heap' = m.heap
          /\ alive' = m.alive
          /\ freed' = m.freed
          /\ root' = NewAddr(Mem)
          /\ held' = held \cup {NewAddr(Mem)}
    /\ lastOp' = [op |-> "buildTreeFromContent", file_path |-> file_path]
    /\ result' = NewAddr(Mem)
    /\ UNCHANGED <<idxVars, crashed, calls, stubs>>

GetValidationErrors(node) ==
    /\ root # NULL
    /\ result' = getValidationErrors(Mem, node)
    /\ lastOp' = [op |-> "getValidationErrors", root |-> node]
    /\ UNCHANGED <<idxVars, memVars, buildVars>>

InitBuild ==
    /\ EmptyIndex
    /\ heap = EmptyMap
    /\ alive = {}
    /\ freed = {}
    /\ held = {}
    /\ crashed = FALSE
    /\ calls = 0
    /\ root = NULL
    /\ stubs \in SeqsUpTo(ParsedStubs, MaxStubs)
    /\ lastOp = [op |-> "parseCode"]
    /\ result = NoResult

NextBuild ==
    \/ \E file_path \in {FileA, FileB} : BuildTreeFromContent(file_path)
    \/ \E node \in alive \cup {NULL} : GetValidationErrors(node)

SpecBuild == InitBuild /\ [][NextBuild]_vars

(***************************************************************************)
(* Ownership.  An object is destroyed when its last owning shared_ptr goes *)
(* away: the caller's (held) and the owning entries of the children lists  *)
(* of live objects.  Destroying an object destroys its children list, so   *)
(* its entries stop counting; the memory keeps its last contents.          *)
(***************************************************************************)
\* how many entries of a children list own node
OwningEntries(children, node) ==
    Cardinality({i \in 1..Len(children) : children[i].n = node /\ children[i].own})

RECURSIVE SumOver(_, _, _)
SumOver(S, m, node) ==
    IF S = {} THEN 0
    ELSE LET p == CHOOSE x \in S : TRUE
         IN OwningEntries(m.heap[p].children, node) + SumOver(S \ {p}, m, node)

\* shared_ptr::use_count of the object at node
UseCount(m, holders, node) ==
    (IF node \in holders THEN 1 ELSE 0) + SumOver(m.alive, m, node)

\* run the destructors of every object nobody owns any more
RECURSIVE Destroy(_, _)
Destroy(m, holders) ==
    LET dead == {n \in m.alive : UseCount(m, holders, n) = 0}
    IN IF dead = {} THEN m
       ELSE Destroy([m EXCEPT !.alive = @ \ dead, !.freed = @ \cup dead], holders)

(***************************************************************************)
(* Tree mutation (PSITreeOperations::removeNode / moveNode).  An operator  *)
(* returns [m |-> the memory after the call, ub |-> whether the call       *)
(* touched a destroyed object or invalidated an iterator it still uses].   *)
(***************************************************************************)
\* the longest children list the model lets a mutation build
MaxChildren == 4

\* position of the first entry of children that points at node, 0 if none
FirstIndexOf(children, node) ==
    IF \E i \in 1..Len(children) : children[i].n = node
    THEN CHOOSE i \in 1..Len(children) :
            /\ children[i].n = node
            /\ \A j \in 1..(i - 1) : children[j].n # node
    ELSE 0

\* vector::erase(begin() + i - 1)
EraseAt(q, i) == SubSeq(q, 1, i - 1) \o SubSeq(q, i + 1, Len(q))

\* the loop of removeNode under keep_children: child->setParent(parent);
\* children.push_back(child), for each child of node
RECURSIVE ReparentChildren(_, _, _)
ReparentChildren(h, list, parent) ==
    IF list = <<>> THEN h
    ELSE LET child == Head(list)
             h1 == [h EXCEPT ![child.n].parent = parent]
             h2 == [h1 EXCEPT ![parent].children = Append(@, child)]
         IN ReparentChildren(h2, Tail(list), parent)

\* PSITreeOperations::removeNode
removeNode(m, holders, node, keep_children) ==
    IF node = NULL \/ m.heap[node].parent = NULL THEN [m |-> m, ub |-> FALSE]
    ELSE LET parent == m.heap[node].parent
             kept == m.heap[node].children
             h1 == IF keep_children THEN ReparentChildren(m.heap, kept, parent) ELSE m.heap
             i == FirstIndexOf(h1[parent].children, node)
             h2 == IF i = 0 THEN h1 ELSE [h1 EXCEPT ![parent].children = EraseAt(@, i)]
             \* the parent was destroyed, a moved child was destroyed, or the
             \* loop pushes into the vector it iterates (node is its own parent)
             ub == \/ parent \notin m.alive
                   \/ keep_children /\ \E k \in 1..Len(kept) : kept[k].n \notin m.alive
                   \/ keep_children /\ parent = node /\ kept # <<>>
         IN [m |-> Destroy([m EXCEPT !.heap = h2], holders), ub |-> ub]

\* PSITreeOperations::moveNode: removeNode(node, false), then addChild of a
\* shared_ptr with an empty deleter, which owns nothing
moveNode(m, holders, node, new_parent) ==
    IF node = NULL \/ new_parent = NULL THEN [m |-> m, ub |-> FALSE]
    ELSE LET removed == removeNode(m, holders, node, FALSE)
             m1 == removed.m
             \* addChild writes node->parent_ and new_parent->children_
             ub == removed.ub \/ node \notin m1.alive \/ new_parent \notin m1.alive
         IN [m |-> addChild(m1, new_parent, node, FALSE), ub |-> ub]

(***************************************************************************)
(* SpecMut: trees that callers built with make_shared and addChild, then   *)
(* mutated through PSITreeOperations.  The caller holds the roots and any  *)
(* of the other nodes.  A call that runs into undefined behaviour either   *)
(* faults (crashed) or goes on with the stale memory.                      *)
(***************************************************************************)
\* the number of nodes of the forests the mutations start from
MutNodes == 4

\* the longest sequence of mutating calls the model follows
MaxCalls == 2

\* parent vectors of the ordered forests on 1..n: node i hangs under a
\* smaller address or under none (0); siblings are in address order
ParentVectors(n) == {pv \in [1..n -> 0..(n - 1)] : \A i \in 1..n : pv[i] < i}

\* the owning children list of node p in the forest pv
RECURSIVE ChildrenIn(_, _, _, _)
ChildrenIn(pv, p, i, n) ==
    IF i > n THEN <<>>
    ELSE (IF pv[i] = p THEN <<[n |-> i, own |-> TRUE]>> ELSE <<>>) \o ChildrenIn(pv, p, i + 1, n)

\* the heap that make_shared and addChild leave for the forest pv with the
\* given kinds and texts
ForestHeap(pv, types, texts, n) ==
    [i \in 1..n |->
        [PSINode(types[i], texts[i], SourceLocation(FileA, i, 1))
            EXCEPT !.parent = pv[i], !.children = ChildrenIn(pv, i, 1, n)]]

MutTexts == [i \in 1..(MutNodes + 1) |-> <<"n", i>>]

InitMut ==
    /\ EmptyIndex
    /\ stubs = <<>>
    /\ root = NULL
    /\ crashed = FALSE
    /\ calls = 0
    /\ freed = {}
    /\ alive = 1..MutNodes
    /\ \E pv \in ParentVectors(MutNodes) :
          /\ heap = ForestHeap(pv, [i \in 1..MutNodes |-> IF pv[i] = 0 THEN "FILE" ELSE "CLASS"],
                               MutTexts, MutNodes)
          /\ held \in {H \in SUBSET (1..MutNodes) : \A i \in 1..MutNodes : pv[i] = 0 => i \in H}
    /\ lastOp = [op |-> "new"]
    /\ result = NoResult

\* the nodes reachable from the nodes of S through children lists
RECURSIVE SubtreeSet(_, _)
SubtreeSet(m, S) ==
    LET next == S \cup {c \in DOMAIN m.heap : \E p \in S : c \in Range(Kids(m, p))}
    IN IF next = S THEN S ELSE SubtreeSet(m, next)

\* every live node is listed exactly once, by its parent and by nobody else,
\* or is listed nowhere and has no parent; nothing points at a destroyed node
WellFormed(m) ==
    /\ \A n \in m.alive :
          /\ Range(Kids(m, n)) \subseteq m.alive
          /\ \A c \in Range(Kids(m, n)) :
                m.heap[c].parent = n /\ Occurrences(Kids(m, n), c) = 1
          /\ m.heap[n].parent # NULL =>
                m.heap[n].parent \in m.alive /\ n \in Range(Kids(m, m.heap[n].parent))
    /\ \A n \in m.alive : n \notin SubtreeSet(m, Range(Kids(m, n)))

\* the call ends in the memory after, or faults if it ran into undefined behaviour
Outcome(after) ==
    \E fault \in (IF after.ub THEN BOOLEAN ELSE {FALSE}) :
        /\ crashed' = fault
        /\ calls' = calls + 1
        /\ heap' = after.m.heap
        /\ alive' = after.m.alive
        /\ freed' = after.m.freed

RemoveNode(node, keep_children) ==
    /\ ~crashed
    /\ calls < MaxCalls
    /\ node # NULL /\ heap[node].parent # NULL /\ keep_children =>
          Len(heap[heap[node].parent].children) + Len(heap[node].children) <= MaxChildren
    /\ Outcome(removeNode(Mem, held, node, keep_children))
    /\ lastOp' = [op |-> "removeNode", node |-> node, keep_children |-> keep_children,
                  parent |-> IF node = NULL THEN NULL ELSE heap[node].parent,
                  children |-> IF node = NULL THEN <<>> ELSE Kids(Mem, node),
                  wellFormed |-> WellFormed(Mem)]
    /\ result' = NoResult
    /\ UNCHANGED <<idxVars, buildVars, held>>

MoveNode(node, new_parent) ==
    /\ ~crashed
    /\ calls < MaxCalls
    /\ new_parent # NULL => Len(heap[new_parent].children) < MaxChildren
    /\ Outcome(moveNode(Mem, held, node, new_parent))
    /\ lastOp' = [op |-> "moveNode", node |-> node, new_parent |-> new_parent,
                  parent |-> IF node = NULL THEN NULL ELSE heap[node].parent,
                  inside |-> node # NULL /\ new_parent \in SubtreeSet(Mem, {node}),
                  wellFormed |-> WellFormed(Mem)]
    /\ result' = NoResult
    /\ UNCHANGED <<idxVars, buildVars, held>>

NextMut ==
    \/ \E node \in alive \cup {NULL} : \E keep_children \in BOOLEAN : RemoveNode(node, keep_children)
    \/ \E node \in alive \cup {NULL} : \E new_parent \in alive \cup {NULL} : MoveNode(node, new_parent)

SpecMut == InitMut /\ [][NextMut]_vars

(***************************************************************************)
(* Similarity (PSITreeOperations::calculateSimilarity).  The doubles of    *)
(* the code are exact fractions [num, den] here, den > 0, in lowest terms: *)
(* 0.5, 0.3 and 0.2 are 1/2, 3/10 and 1/5.                                 *)
(***************************************************************************)
RECURSIVE GCD(_, _)
GCD(a, b) == IF b = 0 THEN a ELSE GCD(b, a % b)

Abs(x) == IF x < 0 THEN -x ELSE x

Max(a, b) == IF a < b THEN b ELSE a

Min(a, b) == IF a < b THEN a ELSE b

Frac(n, d) ==
    LET g == GCD(Abs(n), d)
    IN [num |-> n \div g, den |-> d \div g]

Zero == [num |-> 0, den |-> 1]
One == [num |-> 1, den |-> 1]
Half == [num |-> 1, den |-> 2]
ThreeTenths == [num |-> 3, den |-> 10]
OneFifth == [num |-> 1, den |-> 5]

FracAdd(x, y) == Frac(x.num * y.den + y.num * x.den, x.den * y.den)
FracSub(x, y) == Frac(x.num * y.den - y.num * x.den, x.den * y.den)
FracMul(x, y) == Frac(x.num * y.num, x.den * y.den)
FracDivInt(x, k) == Frac(x.num, x.den * k)
FracLess(x, y) == x.num * y.den < y.num * x.den
FracLeq(x, y) == x.num * y.den <= y.num * x.den

\* PSITreeOperations::calculateSubtreeSize
RECURSIVE calculateSubtreeSize(_, _)
RECURSIVE calculateSubtreeSizes(_, _)
calculateSubtreeSize(m, node) ==
    IF node = NULL THEN 0 ELSE 1 + calculateSubtreeSizes(m, Kids(m, node))

calculateSubtreeSizes(m, list) ==
    IF list = <<>> THEN 0
    ELSE calculateSubtreeSize(m, Head(list)) + calculateSubtreeSizes(m, Tail(list))

\* PSITreeOperations::getSubtreeSize
getSubtreeSize(m, node) == calculateSubtreeSize(m, node)

\* a node similarity that credits 0.2 for the children of a childless pair
RECURSIVE calculateNodeSimilarityFullForLeaves(_, _, _)
RECURSIVE ChildSimilarityFullForLeaves(_, _, _, _, _)
calculateNodeSimilarityFullForLeaves(m, node1, node2) ==
    IF node1 = NULL \/ node2 = NULL THEN Zero
    ELSE IF m.heap[node1].type # m.heap[node2].type THEN Zero
    ELSE LET size1 == Len(m.heap[node1].children)
             size2 == Len(m.heap[node2].children)
             s1 == IF m.heap[node1].text = m.heap[node2].text THEN Half ELSE Zero
             s2 == IF size1 = size2 THEN FracAdd(s1, ThreeTenths) ELSE s1
             min_children == Min(size1, size2)
             child_similarity ==
                 ChildSimilarityFullForLeaves(m, Kids(m, node1), Kids(m, node2), 1, min_children)
         IN IF min_children > 0
            THEN FracAdd(s2, FracMul(FracDivInt(child_similarity, min_children), OneFifth))
            ELSE FracAdd(s2, OneFifth)

ChildSimilarityFullForLeaves(m, kids1, kids2, i, min_children) ==
    IF i > min_children THEN Zero
    ELSE FracAdd(calculateNodeSimilarityFullForLeaves(m, kids1[i], kids2[i]),
                 ChildSimilarityFullForLeaves(m, kids1, kids2, i + 1, min_children))

\* PSITreeOperations::calculateNodeSimilarity; ChildSimilarity is its loop
\* over the first min_children child pairs
RECURSIVE calculateNodeSimilarity(_, _, _)
RECURSIVE ChildSimilarity(_, _, _, _, _)
calculateNodeSimilarity(m, node1, node2) ==
    IF node1 = NULL \/ node2 = NULL THEN Zero
    ELSE IF m.heap[node1].type # m.heap[node2].type THEN Zero
    ELSE LET size1 == Len(m.heap[node1].children)
             size2 == Len(m.heap[node2].children)
             s1 == IF m.heap[node1].text = m.heap[node2].text THEN Half ELSE Zero
             s2 == IF size1 = size2 THEN FracAdd(s1, ThreeTenths) ELSE s1
             min_children == Min(size1, size2)
             child_similarity == ChildSimilarity(m, Kids(m, node1), Kids(m, node2), 1, min_children)
         IN IF min_children > 0
            THEN FracAdd(s2, FracMul(FracDivInt(child_similarity, min_children), OneFifth))
            ELSE s2

ChildSimilarity(m, kids1, kids2, i, min_children) ==
    IF i > min_children THEN Zero
    ELSE FracAdd(calculateNodeSimilarity(m, kids1[i], kids2[i]),
                 ChildSimilarity(m, kids1, kids2, i + 1, min_children))

\* PSITreeOperations::calculateSimilarity
calculateSimilarity(m, tree1, tree2) ==
    IF tree1 = NULL \/ tree2 = NULL THEN Zero
    ELSE LET size1 == getSubtreeSize(m, tree1)
             size2 == getSubtreeSize(m, tree2)
         IN IF size1 = 0 \/ size2 = 0 THEN Zero
            ELSE LET node_similarity == calculateNodeSimilarity(m, tree1, tree2)
                     size_similarity ==
                         FracSub(One, Frac(Abs(size1 - size2), Max(size1, size2)))
                 IN FracDivInt(FracAdd(node_similarity, size_similarity), 2)

(***************************************************************************)
(* SpecSim: two trees of a forest of labelled nodes are compared; the call *)
(* is a pure function of the forest, so a behaviour makes one call.        *)
(***************************************************************************)
\* the number of nodes of the forests that are compared
SimNodes == 4

\* the <<kind, text>> a compared node can have
SimLabels == {<<"FILE", "a">>, <<"CLASS", "a">>, <<"CLASS", "b">>}

InitSim ==
    /\ EmptyIndex
    /\ stubs = <<>>
    /\ root = NULL
    /\ crashed = FALSE
    /\ calls = 0
    /\ freed = {}
    /\ alive = 1..SimNodes
    /\ \E pv \in ParentVectors(SimNodes) : \E label \in [1..SimNodes -> SimLabels] :
          /\ heap = ForestHeap(pv, [i \in 1..SimNodes |-> label[i][1]],
                               [i \in 1..SimNodes |-> label[i][2]], SimNodes)
          /\ held = {i \in 1..SimNodes : pv[i] = 0}
    /\ lastOp = [op |-> "new"]
    /\ result = NoResult

CalculateSimilarity(tree1, tree2) ==
    /\ lastOp.op = "new"
    /\ result' = calculateSimilarity(Mem, tree1, tree2)
    /\ lastOp' = [op |-> "calculateSimilarity", tree1 |-> tree1, tree2 |-> tree2]
    /\ UNCHANGED <<idxVars, memVars, buildVars>>

NextSim ==
    \E tree1 \in alive \cup {NULL} : \E tree2 \in alive \cup {NULL} :
        CalculateSimilarity(tree1, tree2)

SpecSim == InitSim /\ [][NextSim]_vars

(***************************************************************************)
(* Difference of two trees (PSITreeOperations::findDifferences)            *)
(***************************************************************************)
\* PSITreeOperations::findDifferences: the nodes of getAllDescendants(tree1)
\* that no node of getAllDescendants(tree2) matches in type and text
findDifferences(m, tree1, tree2) ==
    IF tree1 = NULL \/ tree2 = NULL THEN <<>>
    ELSE LET nodes1 == getAllDescendants(m, tree1)
             nodes2 == getAllDescendants(m, tree2)
             found(node1) ==
                 \E k \in 1..Len(nodes2) :
                    /\ m.heap[node1].type = m.heap[nodes2[k]].type
                    /\ m.heap[node1].text = m.heap[nodes2[k]].text
         IN SelectSeq(nodes1, LAMBDA node1 : ~found(node1))

(***************************************************************************)
(* SpecDiff: two trees of a forest of labelled nodes are compared by       *)
(* findDifferences, a pure function of the forest.                         *)
(***************************************************************************)
\* the number of nodes of the forests findDifferences is applied to
DiffNodes == 4

\* the state after callers built a forest of n nodes with make_shared and
\* addChild, holding its roots
LabelledForest(n, Labels) ==
    /\ EmptyIndex
    /\ stubs = <<>>
    /\ root = NULL
    /\ crashed = FALSE
    /\ calls = 0
    /\ freed = {}
    /\ alive = 1..n
    /\ \E pv \in ParentVectors(n) : \E label \in [1..n -> Labels] :
          /\ heap = ForestHeap(pv, [i \in 1..n |-> label[i][1]],
                               [i \in 1..n |-> label[i][2]], n)
          /\ held = {i \in 1..n : pv[i] = 0}
    /\ lastOp = [op |-> "new"]
    /\ result = NoResult

\* every forest of DiffNodes nodes, each with a <<kind, text>> of the set
InitDiff ==
    LabelledForest(DiffNodes,
                   {<<"FILE", "a">>, <<"CLASS", "a">>, <<"CLASS", "b">>})

FindDifferences(tree1, tree2) ==
    /\ lastOp.op = "new"
    /\ result' = findDifferences(Mem, tree1, tree2)
    /\ lastOp' = [op |-> "findDifferences", tree1 |-> tree1, tree2 |-> tree2]
    /\ UNCHANGED <<idxVars, memVars, buildVars>>

NextDiff ==
    /\ lastOp.op = "new"
    /\ \E tree1 \in alive \cup {NULL} : \E tree2 \in alive \cup {NULL} :
          FindDifferences(tree1, tree2)

SpecDiff == InitDiff /\ [][NextDiff]_vars

(***************************************************************************)
(* Search by condition and tree optimisation                               *)
(* (PSITreeOperations::findNodesByCondition / optimizeTree).  A condition  *)
(* is the function from node addresses to what the predicate answers.      *)
(***************************************************************************)
\* PSITreeOperations::collectNodesByCondition: pre-order, the node first
RECURSIVE collectNodesByCondition(_, _, _)
RECURSIVE collectNodesByConditionOf(_, _, _)
\* a collection that visits the children before the node
collectNodesByConditionChildrenFirst(m, node, condition) ==
    IF node = NULL THEN <<>>
    ELSE collectNodesByConditionOf(m, Kids(m, node), condition)
         \o (IF condition[node] THEN <<node>> ELSE <<>>)

collectNodesByCondition(m, node, condition) ==
    IF node = NULL THEN <<>>
    ELSE (IF condition[node] THEN <<node>> ELSE <<>>)
         \o collectNodesByConditionOf(m, Kids(m, node), condition)

collectNodesByConditionOf(m, list, condition) ==
    IF list = <<>> THEN <<>>
    ELSE collectNodesByCondition(m, Head(list), condition)
         \o collectNodesByConditionOf(m, Tail(list), condition)

\* PSITreeOperations::findNodesByCondition
findNodesByCondition(m, node, condition) == collectNodesByCondition(m, node, condition)

\* the lambda of optimizeTree: no children, and neither VARIABLE nor FUNCTION
IsEmptyNode(m) ==
    [node \in DOMAIN m.heap |->
        /\ m.heap[node].children = <<>>
        /\ m.heap[node].type # "VARIABLE"
        /\ m.heap[node].type # "FUNCTION"]

\* the loop of optimizeTree: removeNode(node, false) for each collected node
\* that has a parent; reading a node an earlier removal destroyed is undefined
RECURSIVE RemoveEmptyNodes(_, _, _, _)
RemoveEmptyNodes(m, holders, empty_nodes, ub) ==
    IF empty_nodes = <<>> THEN [m |-> m, ub |-> ub]
    ELSE LET node == Head(empty_nodes)
             stale == node \notin m.alive
             removed == IF m.heap[node].parent # NULL
                        THEN removeNode(m, holders, node, FALSE)
                        ELSE [m |-> m, ub |-> FALSE]
         IN RemoveEmptyNodes(removed.m, holders, Tail(empty_nodes),
                             ub \/ stale \/ removed.ub)

\* PSITreeOperations::optimizeTree
optimizeTree(m, holders, node) ==
    RemoveEmptyNodes(m, holders, findNodesByCondition(m, node, IsEmptyNode(m)), FALSE)

(***************************************************************************)
(* SpecOpt: optimizeTree on the trees of a forest whose roots the caller   *)
(* holds; any node of the forest can be passed as the tree to optimise.    *)
(***************************************************************************)
\* the number of nodes of the forests optimizeTree is applied to
OptNodes == 4

\* every forest of OptNodes nodes, each with a <<kind, text>> of the set
InitOpt ==
    LabelledForest(OptNodes,
                   {<<"CLASS", "a">>, <<"FUNCTION", "f">>, <<"VARIABLE", "v">>})

OptimizeTree(node) ==
    /\ ~crashed
    /\ calls < MaxCalls
    /\ Outcome(optimizeTree(Mem, held, node))
    /\ lastOp' = [op |-> "optimizeTree", root |-> node,
                  nodes |-> IF node = NULL THEN {} ELSE SubtreeSet(Mem, {node}),
                  parent |-> [n \in alive |-> heap[n].parent],
                  children |-> [n \in alive |-> Kids(Mem, n)]]
    /\ result' = NoResult
    /\ UNCHANGED <<idxVars, buildVars, held>>

NextOpt == \E node \in alive \cup {NULL} : OptimizeTree(node)

SpecOpt == InitOpt /\ [][NextOpt]_vars

(***************************************************************************)
(* Deep copy (PSITreeOperations::cloneSubtree).  An operator that creates  *)
(* nodes returns [m |-> the memory after, node |-> the address returned].  *)
(***************************************************************************)
\* a copy that forgets the kind of the node it copies
CloneOfUntyped(object) == PSINode("UNKNOWN", object.text, object.location)

\* make_shared<PSINode>(root->getType(), root->getText(), root->getLocation())
CloneOf(object) == PSINode(object.type, object.text, object.location)

\* PSITreeOperations::cloneSubtree
RECURSIVE cloneSubtree(_, _)
RECURSIVE cloneChildren(_, _, _)
cloneSubtree(m, node) ==
    IF node = NULL THEN [m |-> m, node |-> NULL]
    ELSE LET clone == NewAddr(m)
             m1 == MakeShared(m, CloneOf(m.heap[node]))
         IN [m |-> cloneChildren(m1, Kids(m1, node), clone), node |-> clone]

\* the loop of cloneSubtree over root->getChildren()
cloneChildren(m, list, clone) ==
    IF list = <<>> THEN m
    ELSE LET child_clone == cloneSubtree(m, Head(list))
         IN cloneChildren(addChild(child_clone.m, clone, child_clone.node, TRUE),
                          Tail(list), clone)

(***************************************************************************)
(* SpecClone: cloneSubtree on any node of a forest of labelled nodes; the  *)
(* caller keeps the shared_ptr the call returns.                           *)
(***************************************************************************)
\* the number of nodes of the forests cloneSubtree is applied to
CloneNodes == 4

\* every forest of CloneNodes nodes, each with a <<kind, text>> of the set
InitClone ==
    LabelledForest(CloneNodes,
                   {<<"FILE", "a">>, <<"CLASS", "a">>, <<"CLASS", "b">>})

\* the caller receives a node: the memory after the call, the returned
\* address as result, and one more owning pointer held if it is not null
Returned(after) ==
    /\ heap' = after.m.heap
    /\ alive' = after.m.alive
    /\ freed' = after.m.freed
    /\ held' = IF after.node = NULL THEN held ELSE held \cup {after.node}
    /\ result' = after.node
    /\ UNCHANGED <<crashed, calls>>

CloneSubtree(node) ==
    /\ lastOp.op = "new"
    /\ Returned(cloneSubtree(Mem, node))
    /\ lastOp' = [op |-> "cloneSubtree", root |-> node, before |-> Mem]
    /\ UNCHANGED <<idxVars, buildVars>>

NextClone ==
    /\ lastOp.op = "new"
    /\ \E node \in alive \cup {NULL} : CloneSubtree(node)

SpecClone == InitClone /\ [][NextClone]_vars

(***************************************************************************)
(* PSITreeTransformer.  A transformer (the std::function handed to         *)
(* transformTree) is the function from node addresses to the object it     *)
(* constructs for that node, or NullNode where it returns nullptr.         *)
(* transformNode returns [m, node, applied]: the memory after, the address *)
(* returned and the nodes the transformer was applied to, in call order.   *)
(***************************************************************************)
\* what a transformer returns for a node it removes
NullNode == [null |-> TRUE]

\* a transformNode that keeps converting the children of a removed node
RECURSIVE transformNodeVisitsRemoved(_, _, _)
RECURSIVE transformChildrenVisitsRemoved(_, _, _, _, _)
transformNodeVisitsRemoved(m, node, transformer) ==
    IF node = NULL THEN [m |-> m, node |-> NULL, applied |-> <<>>]
    ELSE IF transformer[node] = NullNode
    THEN LET below == transformChildrenVisitsRemoved(m, Kids(m, node), NULL, transformer, <<node>>)
         IN [m |-> m, node |-> NULL, applied |-> below.applied]
    ELSE LET transformed_node == NewAddr(m)
             m1 == MakeShared(m, transformer[node])
         IN transformChildrenVisitsRemoved(m1, Kids(m1, node), transformed_node, transformer,
                                           <<node>>)

transformChildrenVisitsRemoved(m, list, transformed_node, transformer, applied) ==
    IF list = <<>> THEN [m |-> m, node |-> transformed_node, applied |-> applied]
    ELSE LET transformed_child == transformNodeVisitsRemoved(m, Head(list), transformer)
             m1 == IF transformed_node = NULL THEN m
                   ELSE addChild(transformed_child.m, transformed_node,
                                 transformed_child.node, TRUE)
         IN transformChildrenVisitsRemoved(m1, Tail(list), transformed_node, transformer,
                                           applied \o transformed_child.applied)

\* PSITreeTransformer::transformNode
RECURSIVE transformNode(_, _, _)
RECURSIVE transformChildren(_, _, _, _, _)
transformNode(m, node, transformer) ==
    IF node = NULL THEN [m |-> m, node |-> NULL, applied |-> <<>>]
    ELSE IF transformer[node] = NullNode
    THEN [m |-> m, node |-> NULL, applied |-> <<node>>]
    ELSE LET transformed_node == NewAddr(m)
             m1 == MakeShared(m, transformer[node])
         IN transformChildren(m1, Kids(m1, node), transformed_node, transformer, <<node>>)

\* the loop of transformNode over node->getChildren()
transformChildren(m, list, transformed_node, transformer, applied) ==
    IF list = <<>> THEN [m |-> m, node |-> transformed_node, applied |-> applied]
    ELSE LET transformed_child == transformNode(m, Head(list), transformer)
         IN transformChildren(addChild(transformed_child.m, transformed_node,
                                       transformed_child.node, TRUE),
                              Tail(list), transformed_node, transformer,
                              applied \o transformed_child.applied)

\* PSITreeTransformer::transformTree
transformTree(m, node, transformer) ==
    IF node = NULL THEN [m |-> m, node |-> NULL, applied |-> <<>>]
    ELSE transformNode(m, node, transformer)

(***************************************************************************)
(* SpecTransform: transformTree with a caller's transformer that returns   *)
(* nullptr for the nodes of a set and, for any other node, a new node with *)
(* the text in upper case (the transformer of TransformTreeBasic).         *)
(***************************************************************************)
\* the number of nodes of the forests transformTree is applied to
TransformNodes == 4

\* std::toupper over a text
ToUpper(text) ==
    CASE text = "a" -> "A"
      [] text = "b" -> "B"
      [] OTHER -> text

\* a caller's transformer: nullptr on the nodes of removed, else a new
\* PSINode of the same type and location with the text in upper case
UpperTransformer(m, removed) ==
    [node \in DOMAIN m.heap |->
        IF node \in removed THEN NullNode
        ELSE PSINode(m.heap[node].type, ToUpper(m.heap[node].text), m.heap[node].location)]

\* every forest of TransformNodes nodes, each with a <<kind, text>> of the set
InitTransform ==
    LabelledForest(TransformNodes,
                   {<<"CLASS", "a">>, <<"FUNCTION", "b">>})

TransformTree(node, removed) ==
    /\ lastOp.op = "new"
    /\ LET transformed == transformTree(Mem, node, UpperTransformer(Mem, removed))
       IN /\ Returned(transformed)
          /\ lastOp' = [op |-> "transformTree", root |-> node, removed |-> removed,
                        applied |-> transformed.applied, before |-> Mem]
    /\ UNCHANGED <<idxVars, buildVars>>

\* the transformer is only ever asked about the nodes of the tree at node
NextTransform ==
    /\ lastOp.op = "new"
    /\ \E node \in alive \cup {NULL} :
          \E removed \in SUBSET (IF node = NULL THEN {} ELSE SubtreeSet(Mem, {node})) :
              TransformTree(node, removed)

SpecTransform == InitTransform /\ [][NextTransform]_vars

(***************************************************************************)
(* The transformers of PSITreeTransformer: simplifyTree, removeNodesByType,*)
(* flattenHierarchy and overlayTrees each hand a lambda to transformTree.  *)
(***************************************************************************)
\* the loop `for (const auto& [key, value] : node->getSemanticInfo())
\*               new_node->setSemanticInfo(key, value);`
RECURSIVE CopySemanticInfo(_, _, _)
CopySemanticInfo(new_node, info, keys) ==
    IF keys = {} THEN new_node
    ELSE LET key == CHOOSE k \in keys : TRUE
         IN CopySemanticInfo(setSemanticInfo(new_node, key, info[key]), info, keys \ {key})

\* a new PSINode of the same type, text and location, then the copy loop
CopyWithInfo(object) ==
    CopySemanticInfo(PSINode(object.type, object.text, object.location),
                     object.semantic_info, DOMAIN object.semantic_info)

\* simplify_transformer: FILE, CLASS, FUNCTION and VARIABLE nodes become new
\* PSINodes, every other node is removed
simplify_transformer(m) ==
    [node \in DOMAIN m.heap |->
        IF m.heap[node].type \in {"FILE", "CLASS", "FUNCTION", "VARIABLE"}
        THEN PSINode(m.heap[node].type, m.heap[node].text, m.heap[node].location)
        ELSE NullNode]

\* PSITreeTransformer::simplifyTree
simplifyTree(m, node) == transformTree(m, node, simplify_transformer(m))

\* flatten_transformer: captures max_depth and copies the node
flatten_transformer(m, max_depth) ==
    [node \in DOMAIN m.heap |-> CopyWithInfo(m.heap[node])]

\* PSITreeTransformer::flattenHierarchy
flattenHierarchy(m, node, max_depth) == transformTree(m, node, flatten_transformer(m, max_depth))

\* PSITreeOperations::calculateDepth
RECURSIVE calculateDepth(_, _)
RECURSIVE MaxChildDepth(_, _, _)
calculateDepth(m, node) ==
    IF node = NULL \/ m.heap[node].children = <<>> THEN 1
    ELSE MaxChildDepth(m, Kids(m, node), 0) + 1

\* the loop of calculateDepth: max_depth = std::max(max_depth, calculateDepth(child))
MaxChildDepth(m, list, max_depth) ==
    IF list = <<>> THEN max_depth
    ELSE MaxChildDepth(m, Tail(list), Max(max_depth, calculateDepth(m, Head(list))))

\* PSITreeOperations::getTreeDepth
getTreeDepth(m, node) == calculateDepth(m, node)

(***************************************************************************)
(* SpecRewrite: simplifyTree and flattenHierarchy on any node of a forest  *)
(* of labelled nodes.                                                      *)
(***************************************************************************)
\* the number of nodes of the forests that are rewritten
RewriteNodes == 3

\* the largest max_depth handed to flattenHierarchy
MaxDepthLimit == 2

\* every forest of RewriteNodes nodes, each with a <<kind, text>> of the set
InitRewrite ==
    LabelledForest(RewriteNodes,
                   {<<"FILE", "a">>, <<"NAMESPACE", "n">>, <<"CLASS", "c">>,
                    <<"STRUCT", "s">>, <<"FUNCTION", "f">>, <<"VARIABLE", "v">>})

SimplifyTree(node) ==
    /\ lastOp.op = "new"
    /\ Returned(simplifyTree(Mem, node))
    /\ lastOp' = [op |-> "simplifyTree", root |-> node, before |-> Mem]
    /\ UNCHANGED <<idxVars, buildVars>>

FlattenHierarchy(node, max_depth) ==
    /\ lastOp.op = "new"
    /\ Returned(flattenHierarchy(Mem, node, max_depth))
    /\ lastOp' = [op |-> "flattenHierarchy", root |-> node, max_depth |-> max_depth,
                  before |-> Mem]
    /\ UNCHANGED <<idxVars, buildVars>>

NextRewrite ==
    \/ /\ lastOp.op = "new"
       /\ \E node \in alive \cup {NULL} : SimplifyTree(node)
    \/ /\ lastOp.op = "new"
       /\ \E node \in alive \cup {NULL} : \E max_depth \in 1..MaxDepthLimit :
             FlattenHierarchy(node, max_depth)

SpecRewrite == InitRewrite /\ [][NextRewrite]_vars

(***************************************************************************)
(* Removal by kind (PSITreeTransformer::removeNodesByType) and the search  *)
(* by kind used to count nodes (PSITreeOperations::findAllNodes)           *)
(***************************************************************************)
\* a transformer that copies every node, whatever its type
remove_transformerKeepsAll(m, type_to_remove) ==
    [node \in DOMAIN m.heap |-> CopyWithInfo(m.heap[node])]

\* remove_transformer: nullptr for a node of type_to_remove, else a copy
\* with the semantic info
remove_transformer(m, type_to_remove) ==
    [node \in DOMAIN m.heap |->
        IF m.heap[node].type = type_to_remove THEN NullNode
        ELSE CopyWithInfo(m.heap[node])]

\* PSITreeTransformer::removeNodesByType
removeNodesByType(m, node, type_to_remove) ==
    transformTree(m, node, remove_transformer(m, type_to_remove))

\* PSITreeOperations::collectNodesByType: pre-order, the node first
RECURSIVE collectNodesByType(_, _, _)
RECURSIVE collectNodesByTypeOf(_, _, _)
collectNodesByType(m, node, type) ==
    IF node = NULL THEN <<>>
    ELSE (IF m.heap[node].type = type THEN <<node>> ELSE <<>>)
         \o collectNodesByTypeOf(m, Kids(m, node), type)

collectNodesByTypeOf(m, list, type) ==
    IF list = <<>> THEN <<>>
    ELSE collectNodesByType(m, Head(list), type) \o collectNodesByTypeOf(m, Tail(list), type)

\* PSITreeOperations::findAllNodes
findAllNodes(m, node, type) == collectNodesByType(m, node, type)

(***************************************************************************)
(* SpecRemove: removeNodesByType on any node of a forest of labelled nodes *)
(***************************************************************************)
\* the number of nodes of the forests removeNodesByType is applied to
RemoveNodes == 3

\* the kinds asked to be removed: those of the forest and one it has not
RemovedTypes == {"FILE", "CLASS", "FUNCTION", "VARIABLE"}

\* every forest of RemoveNodes nodes, each with a <<kind, text>> of the set
InitRemove ==
    LabelledForest(RemoveNodes,
                   {<<"FILE", "a">>, <<"CLASS", "c">>, <<"FUNCTION", "f">>})

RemoveNodesByType(node, type_to_remove) ==
    /\ lastOp.op = "new"
    /\ Returned(removeNodesByType(Mem, node, type_to_remove))
    /\ lastOp' = [op |-> "removeNodesByType", root |-> node,
                  type_to_remove |-> type_to_remove, before |-> Mem]
    /\ UNCHANGED <<idxVars, buildVars>>

NextRemove ==
    /\ lastOp.op = "new"
    /\ \E node \in alive \cup {NULL} : \E type_to_remove \in RemovedTypes :
          RemoveNodesByType(node, type_to_remove)

SpecRemove == InitRemove /\ [][NextRemove]_vars

(***************************************************************************)
(* Combining trees (PSITreeTransformer::mergeTrees / overlayTrees)         *)
(***************************************************************************)
\* PSITreeTransformer::cloneAndSimplify: a copy with the semantic info,
\* then the clones of the children
RECURSIVE cloneAndSimplify(_, _)
RECURSIVE cloneAndSimplifyChildren(_, _, _)
cloneAndSimplify(m, node) ==
    IF node = NULL THEN [m |-> m, node |-> NULL]
    ELSE LET clone == NewAddr(m)
             m1 == MakeShared(m, CopyWithInfo(m.heap[node]))
         IN [m |-> cloneAndSimplifyChildren(m1, Kids(m1, node), clone), node |-> clone]

\* the loop of cloneAndSimplify (and the inner loop of mergeTrees) over
\* getChildren(): clone the child and add the clone
cloneAndSimplifyChildren(m, list, clone) ==
    IF list = <<>> THEN m
    ELSE LET cloned_child == cloneAndSimplify(m, Head(list))
         IN cloneAndSimplifyChildren(addChild(cloned_child.m, clone, cloned_child.node, TRUE),
                                     Tail(list), clone)

\* "merged", the file path of the merged root's location
MergedPath == <<"m", "e", "r", "g", "e", "d">>

\* make_shared<PSINode>(FILE, "merged", SourceLocation("merged", 0, 0))
MergedRoot == PSINode("FILE", "merged", SourceLocation(MergedPath, 0, 0))

\* a merge that adds a clone of each input tree, its root included
RECURSIVE MergeWholeTrees(_, _, _)
MergeWholeTrees(m, trees, merged_root) ==
    IF trees = <<>> THEN m
    ELSE LET cloned == cloneAndSimplify(m, Head(trees))
         IN MergeWholeTrees(addChild(cloned.m, merged_root, cloned.node, TRUE),
                            Tail(trees), merged_root)

mergeTreesWithRoots(m, trees) ==
    IF trees = <<>> THEN [m |-> m, node |-> NULL]
    ELSE [m |-> MergeWholeTrees(MakeShared(m, MergedRoot), trees, NewAddr(m)),
          node |-> NewAddr(m)]

\* the outer loop of mergeTrees: for each non-null tree, its children
RECURSIVE MergeChildrenOf(_, _, _)
MergeChildrenOf(m, trees, merged_root) ==
    IF trees = <<>> THEN m
    ELSE LET tree == Head(trees)
             m1 == IF tree = NULL THEN m
                   ELSE cloneAndSimplifyChildren(m, Kids(m, tree), merged_root)
         IN MergeChildrenOf(m1, Tail(trees), merged_root)

\* PSITreeTransformer::mergeTrees
mergeTrees(m, trees) ==
    IF trees = <<>> THEN [m |-> m, node |-> NULL]
    ELSE [m |-> MergeChildrenOf(MakeShared(m, MergedRoot), trees, NewAddr(m)),
          node |-> NewAddr(m)]

\* a transformer that copies type, text and location only
overlay_transformerNoInfo(m) ==
    [node \in DOMAIN m.heap |->
        PSINode(m.heap[node].type, m.heap[node].text, m.heap[node].location)]

\* overlay_transformer: a copy with the semantic info
overlay_transformer(m) == [node \in DOMAIN m.heap |-> CopyWithInfo(m.heap[node])]

\* PSITreeTransformer::overlayTrees
overlayTrees(m, base_tree, overlay_tree) ==
    IF base_tree = NULL THEN [m |-> m, node |-> NULL]
    ELSE IF overlay_tree = NULL THEN cloneAndSimplify(m, base_tree)
    ELSE LET transformed == transformTree(m, base_tree, overlay_transformer(m))
         IN [m |-> transformed.m, node |-> transformed.node]

(***************************************************************************)
(* SpecCombine: mergeTrees and overlayTrees on the nodes of a forest whose *)
(* nodes may carry semantic info.                                          *)
(***************************************************************************)
\* the number of nodes of the forests that are combined
CombineNodes == 3

\* the longest list of trees handed to mergeTrees
MaxTrees == 2

\* the semantic info a node can carry
PublicInfo == [key \in {"access"} |-> "public"]

InitCombine ==
    /\ EmptyIndex
    /\ stubs = <<>>
    /\ root = NULL
    /\ crashed = FALSE
    /\ calls = 0
    /\ freed = {}
    /\ alive = 1..CombineNodes
    /\ \E pv \in ParentVectors(CombineNodes) : \E label \in [1..CombineNodes ->
              {<<"FILE", "a", EmptyMap>>, <<"CLASS", "c", PublicInfo>>}] :
          /\ heap = [i \in 1..CombineNodes |->
                        [ForestHeap(pv, [j \in 1..CombineNodes |-> label[j][1]],
                                    [j \in 1..CombineNodes |-> label[j][2]], CombineNodes)[i]
                            EXCEPT !.semantic_info = label[i][3]]]
          /\ held = {i \in 1..CombineNodes : pv[i] = 0}
    /\ lastOp = [op |-> "new"]
    /\ result = NoResult

MergeTrees(trees) ==
    /\ lastOp.op = "new"
    /\ Returned(mergeTrees(Mem, trees))
    /\ lastOp' = [op |-> "mergeTrees", trees |-> trees, before |-> Mem]
    /\ UNCHANGED <<idxVars, buildVars>>

OverlayTrees(base_tree, overlay_tree) ==
    /\ lastOp.op = "new"
    /\ Returned(overlayTrees(Mem, base_tree, overlay_tree))
    /\ lastOp' = [op |-> "overlayTrees", base_tree |-> base_tree,
                  overlay_tree |-> overlay_tree, before |-> Mem]
    /\ UNCHANGED <<idxVars, buildVars>>

NextCombine ==
    \/ /\ lastOp.op = "new"
       /\ \E trees \in SeqsUpTo(alive \cup {NULL}, MaxTrees) : MergeTrees(trees)
    \/ /\ lastOp.op = "new"
       /\ \E base_tree \in alive \cup {NULL} : \E overlay_tree \in alive \cup {NULL} :
             OverlayTrees(base_tree, overlay_tree)

SpecCombine == InitCombine /\ [][NextCombine]_vars

(***************************************************************************)
(* PSITreeQuery: a root and a list of filters; a filter is the record of   *)
(* the builder call that pushed it.                                        *)
(***************************************************************************)
\* PSITreeQuery::PSITreeQuery
PSITreeQuery(root_) == [root_ |-> root_, filters_ |-> <<>>]

\* PSITreeQuery::ofType
ofType(q, type) == [q EXCEPT !.filters_ = Append(@, [filter |-> "ofType", type |-> type])]

\* PSITreeQuery::withName
withName(q, name) == [q EXCEPT !.filters_ = Append(@, [filter |-> "withName", name |-> name])]

\* PSITreeQuery::isLeaf
isLeaf(q) == [q EXCEPT !.filters_ = Append(@, [filter |-> "isLeaf"])]

\* PSITreeQuery::isRoot
isRoot(q) == [q EXCEPT !.filters_ = Append(@, [filter |-> "isRoot"])]

\* the lambda a builder call pushed, applied to node
FilterAccepts(m, f, node) ==
    CASE f.filter = "ofType" -> m.heap[node].type = f.type
      [] f.filter = "withName" -> m.heap[node].text = f.name
      [] f.filter = "isLeaf" -> m.heap[node].children = <<>>
      [] f.filter = "isRoot" -> m.heap[node].parent = NULL

\* matchesFilters stopping after the first filter of the list
matchesFiltersFirstOnly(m, q, node) ==
    q.filters_ = <<>> \/ FilterAccepts(m, q.filters_[1], node)

\* PSITreeQuery::matchesFilters
matchesFilters(m, q, node) ==
    \A i \in 1..Len(q.filters_) : FilterAccepts(m, q.filters_[i], node)

\* PSITreeQuery::execute
execute(m, q) ==
    IF q.root_ = NULL THEN <<>>
    ELSE findNodesByCondition(m, q.root_,
                              [node \in DOMAIN m.heap |-> matchesFilters(m, q, node)])

\* PSITreeQuery::first
first(m, q) == IF execute(m, q) = <<>> THEN NULL ELSE execute(m, q)[1]

\* PSITreeQuery::count
count(m, q) == Len(execute(m, q))

(***************************************************************************)
(* SpecQuery: a query is built over any node of a forest of labelled nodes *)
(* with a chain of builder calls, then executed.                           *)
(***************************************************************************)
\* the number of nodes of the forests that are queried
QueryNodes == 4

\* the longest chain of builder calls before execute
MaxFilters == 2

\* the builder calls a chain is made of
BuilderCalls == {"ofType", "withName", "isLeaf"}

\* the query after the builder calls of chain, in order
RECURSIVE Chained(_, _)
Chained(q, chain) ==
    IF chain = <<>> THEN q
    ELSE Chained(CASE Head(chain) = "ofType" -> ofType(q, "CLASS")
                   [] Head(chain) = "withName" -> withName(q, "a")
                   [] Head(chain) = "isLeaf" -> isLeaf(q),
                 Tail(chain))

\* every forest of QueryNodes nodes, each with a <<kind, text>> of the set
InitQuery ==
    LabelledForest(QueryNodes,
                   {<<"CLASS", "a">>, <<"FUNCTION", "b">>})

Execute(root_, chain) ==
    /\ lastOp.op = "new"
    /\ result' = execute(Mem, Chained(PSITreeQuery(root_), chain))
    /\ lastOp' = [op |-> "execute", query |-> Chained(PSITreeQuery(root_), chain)]
    /\ UNCHANGED <<idxVars, memVars, buildVars>>

NextQuery ==
    /\ lastOp.op = "new"
    /\ \E root_ \in alive \cup {NULL} : \E chain \in SeqsUpTo(BuilderCalls, MaxFilters) :
          Execute(root_, chain)

SpecQuery == InitQuery /\ [][NextQuery]_vars

(***************************************************************************)
(* Searches and metrics of PSITreeOperations                               *)
(***************************************************************************)
\* PSITreeOperations::findNodesByName
findNodesByName(m, root_, name) ==
    findNodesByCondition(m, root_, [node \in DOMAIN m.heap |-> m.heap[node].text = name])

\* PSITreeOperations::findFirstNodeByName
findFirstNodeByName(m, root_, name) ==
    LET nodes == findNodesByName(m, root_, name)
    IN IF nodes = <<>> THEN NULL ELSE nodes[1]

\* PSITreeOperations::findNodesInFile
findNodesInFile(m, root_, file_path) ==
    findNodesByCondition(m, root_,
        [node \in DOMAIN m.heap |-> m.heap[node].location.file_path = file_path])

\* PSITreeOperations::findNodesInLineRange
findNodesInLineRange(m, root_, start_line, end_line) ==
    findNodesByCondition(m, root_,
        [node \in DOMAIN m.heap |->
            LET line == m.heap[node].location.line
            IN line >= start_line /\ line <= end_line])

\* PSITreeOperations::collectLeafNodes
RECURSIVE collectLeafNodes(_, _)
RECURSIVE collectLeafNodesOf(_, _)
collectLeafNodes(m, node) ==
    IF node = NULL THEN <<>>
    ELSE IF m.heap[node].children = <<>> THEN <<node>>
    ELSE collectLeafNodesOf(m, Kids(m, node))

collectLeafNodesOf(m, list) ==
    IF list = <<>> THEN <<>>
    ELSE collectLeafNodes(m, Head(list)) \o collectLeafNodesOf(m, Tail(list))

\* PSITreeOperations::getLeafNodes
getLeafNodes(m, root_) == collectLeafNodes(m, root_)

\* PSITreeOperations::collectBranchNodes
RECURSIVE collectBranchNodes(_, _)
RECURSIVE collectBranchNodesOf(_, _)
collectBranchNodes(m, node) ==
    IF node = NULL THEN <<>>
    ELSE IF m.heap[node].children # <<>>
         THEN <<node>> \o collectBranchNodesOf(m, Kids(m, node))
         ELSE <<>>

collectBranchNodesOf(m, list) ==
    IF list = <<>> THEN <<>>
    ELSE collectBranchNodes(m, Head(list)) \o collectBranchNodesOf(m, Tail(list))

\* PSITreeOperations::getBranchNodes
getBranchNodes(m, root_) == collectBranchNodes(m, root_)

(***************************************************************************)
(* Hierarchy and path operations of PSITreeOperations.  A text or a path   *)
(* is a sequence of characters here.  An operator that dereferences its    *)
(* argument returns [value, ub]: ub tells that it dereferenced a null      *)
(* pointer.                                                                *)
(***************************************************************************)
\* the loop of getAncestors followed by std::reverse: the root comes first
RECURSIVE AncestorsFrom(_, _)
AncestorsFrom(m, current) ==
    IF current = NULL THEN <<>>
    ELSE Append(AncestorsFrom(m, m.heap[current].parent), current)

\* PSITreeOperations::getAncestors: node->getParent() with no null test
getAncestors(m, node) ==
    IF node = NULL THEN [value |-> <<>>, ub |-> TRUE]
    ELSE [value |-> AncestorsFrom(m, m.heap[node].parent), ub |-> FALSE]

\* the loop of findCommonAncestor from index i on
RECURSIVE CommonFrom(_, _, _, _)
CommonFrom(ancestors1, ancestors2, i, common) ==
    IF i > Min(Len(ancestors1), Len(ancestors2)) THEN common
    ELSE IF ancestors1[i] = ancestors2[i]
         THEN CommonFrom(ancestors1, ancestors2, i + 1, ancestors1[i])
         ELSE common

\* PSITreeOperations::findCommonAncestor
findCommonAncestor(m, node1, node2) ==
    LET ancestors1 == getAncestors(m, node1)
        ancestors2 == getAncestors(m, node2)
    IN [value |-> CommonFrom(ancestors1.value, ancestors2.value, 1, NULL),
        ub    |-> ancestors1.ub \/ ancestors2.ub]

\* PSITreeOperations::buildNodePath: what the call appends to path
RECURSIVE buildNodePath(_, _)
buildNodePath(m, node) ==
    IF node = NULL THEN <<>>
    ELSE (IF m.heap[node].parent # NULL
          THEN buildNodePath(m, m.heap[node].parent) \o <<"/">>
          ELSE <<>>)
         \o m.heap[node].text

\* PSITreeOperations::getNodePath
getNodePath(m, node) == buildNodePath(m, node)

\* the std::getline loop of findNodeByPath: the non-empty parts between '/'
RECURSIVE PathParts(_, _)
PathParts(path, part) ==
    IF path = <<>> THEN (IF part = <<>> THEN <<>> ELSE <<part>>)
    ELSE IF Head(path) = "/"
         THEN (IF part = <<>> THEN <<>> ELSE <<part>>) \o PathParts(Tail(path), <<>>)
         ELSE PathParts(Tail(path), Append(part, Head(path)))

\* the first child in list whose text is part, or NULL
RECURSIVE FirstChildNamed(_, _, _)
FirstChildNamed(m, list, part) ==
    IF list = <<>> THEN NULL
    ELSE IF m.heap[Head(list)].text = part THEN Head(list)
    ELSE FirstChildNamed(m, Tail(list), part)

\* the walk of findNodeByPath: current->getChildren() with no null test
RECURSIVE WalkParts(_, _, _)
WalkParts(m, current, parts) ==
    IF parts = <<>> THEN [value |-> current, ub |-> FALSE]
    ELSE IF current = NULL THEN [value |-> NULL, ub |-> TRUE]
    ELSE LET child == FirstChildNamed(m, Kids(m, current), Head(parts))
         IN IF child = NULL THEN [value |-> NULL, ub |-> FALSE]
            ELSE WalkParts(m, child, Tail(parts))

\* PSITreeOperations::findNodeByPath
findNodeByPath(m, root_, path) == WalkParts(m, root_, PathParts(path, <<>>))

(***************************************************************************)
(* SpecNav: the searches, metrics, hierarchy and path operations on any    *)
(* node of a forest of labelled nodes, or on a null pointer.               *)
(***************************************************************************)
\* the number of nodes of the forests that are searched
NavNodes == 4

\* the longest path handed to findNodeByPath that no getNodePath returned
MaxPathLen == 2

\* every forest of NavNodes nodes, each with a <<kind, text>> of the set
InitNav ==
    LabelledForest(NavNodes,
                   {<<"CLASS", <<"a">>>>, <<"FUNCTION", <<"b">>>>})

\* the traversal, search and metric operations, each called on root_
Search(operation, root_) ==
    /\ result' =
          CASE operation = "findAllNodes" -> findAllNodes(Mem, root_, "CLASS")
            [] operation = "findNodesByCondition" ->
                  findNodesByCondition(Mem, root_, [node \in DOMAIN heap |-> TRUE])
            [] operation = "findNodesByName" -> findNodesByName(Mem, root_, <<"a">>)
            [] operation = "findFirstNodeByName" -> findFirstNodeByName(Mem, root_, <<"a">>)
            [] operation = "findNodesInFile" -> findNodesInFile(Mem, root_, FileA)
            [] operation = "findNodesInLineRange" -> findNodesInLineRange(Mem, root_, 2, 3)
            [] operation = "getAllDescendants" -> getAllDescendants(Mem, root_)
            [] operation = "getLeafNodes" -> getLeafNodes(Mem, root_)
            [] operation = "getBranchNodes" -> getBranchNodes(Mem, root_)
            [] operation = "getSubtreeSize" -> getSubtreeSize(Mem, root_)
            [] operation = "getTreeDepth" -> getTreeDepth(Mem, root_)
    /\ lastOp' = [op |-> operation, root_ |-> root_]
    /\ UNCHANGED <<idxVars, memVars, buildVars>>

\* the call returns its value, or ran into undefined behaviour: it faults, or
\* goes on and returns whatever it finds
Answers(call, Anything) ==
    \E fault \in (IF call.ub THEN BOOLEAN ELSE {FALSE}) :
        /\ crashed' = fault
        /\ result' \in (IF ~call.ub THEN {call.value}
                        ELSE IF fault THEN {NoResult} ELSE Anything)
        /\ UNCHANGED <<idxVars, buildVars, heap, alive, freed, held, calls>>

GetAncestors(node) ==
    /\ Answers(getAncestors(Mem, node), {<<>>} \cup {<<n>> : n \in alive})
    /\ lastOp' = [op |-> "getAncestors", node |-> node]

FindCommonAncestor(node1, node2) ==
    /\ Answers(findCommonAncestor(Mem, node1, node2), alive \cup {NULL})
    /\ lastOp' = [op |-> "findCommonAncestor", node1 |-> node1, node2 |-> node2]

GetNodePath(node) ==
    /\ result' = getNodePath(Mem, node)
    /\ lastOp' = [op |-> "getNodePath", node |-> node]
    /\ UNCHANGED <<idxVars, memVars, buildVars>>

FindNodeByPath(root_, path) ==
    /\ Answers(findNodeByPath(Mem, root_, path), alive \cup {NULL})
    /\ lastOp' = [op |-> "findNodeByPath", root_ |-> root_, path |-> path,
                  of |-> IF lastOp.op = "getNodePath" THEN lastOp.node ELSE NULL]

\* one call on a forest, or findNodeByPath on the path getNodePath returned
NextNav ==
    \/ /\ lastOp.op = "new"
       /\ \E root_ \in alive \cup {NULL} :
            \E operation \in {"findAllNodes", "findNodesByCondition", "findNodesByName",
                              "findFirstNodeByName", "findNodesInFile",
                              "findNodesInLineRange", "getAllDescendants", "getLeafNodes",
                              "getBranchNodes", "getSubtreeSize", "getTreeDepth"} :
                Search(operation, root_)
    \/ /\ lastOp.op = "new"
       /\ \E node \in alive \cup {NULL} : GetAncestors(node)
    \/ /\ lastOp.op = "new"
       /\ \E node1, node2 \in alive \cup {NULL} : FindCommonAncestor(node1, node2)
    \/ /\ lastOp.op = "new"
       /\ \E node \in alive \cup {NULL} : GetNodePath(node)
    \/ /\ lastOp.op = "new"
       /\ \E root_ \in alive \cup {NULL} :
            \E path \in SeqsUpTo({"a", "b", "/"}, MaxPathLen) : FindNodeByPath(root_, path)
    \/ /\ lastOp.op = "getNodePath"
       /\ \E root_ \in alive \cup {NULL} : FindNodeByPath(root_, result)

SpecNav == InitNav /\ [][NextNav]_vars

(***************************************************************************)
(* The children list of PSINode (removeChild / clearChildren) and          *)
(* PSITreeOperations::copyNode                                             *)
(***************************************************************************)
\* PSINode::removeChild: index is a size_t, the first child has index 0
removeChild(m, holders, this, index) ==
    IF index < Len(m.heap[this].children)
    THEN LET child == m.heap[this].children[index + 1].n
             h1 == [m.heap EXCEPT ![child].parent = NULL]
             h2 == [h1 EXCEPT ![this].children = EraseAt(@, index + 1)]
         IN [m |-> Destroy([m EXCEPT !.heap = h2], holders), ub |-> child \notin m.alive]
    ELSE [m |-> m, ub |-> FALSE]

\* PSINode::clearChildren
clearChildren(m, holders, this) ==
    LET children == Range(Kids(m, this))
        h1 == [n \in DOMAIN m.heap |->
                  IF n \in children THEN [m.heap[n] EXCEPT !.parent = NULL] ELSE m.heap[n]]
        h2 == [h1 EXCEPT ![this].children = <<>>]
    IN [m |-> Destroy([m EXCEPT !.heap = h2], holders),
        ub |-> ~(children \subseteq m.alive)]

\* PSITreeOperations::copyNode: the clone is owned by target_parent's list
copyNode(m, holders, source, target_parent) ==
    IF source = NULL \/ target_parent = NULL THEN [m |-> m, ub |-> FALSE]
    ELSE LET clone == cloneSubtree(m, source)
             m1 == [clone.m EXCEPT !.heap = [@ EXCEPT ![clone.node].parent = target_parent]]
         IN [m |-> addChild(m1, target_parent, clone.node, TRUE),
             ub |-> ~(SubtreeSet(m, {source}) \subseteq m.alive)]

(***************************************************************************)
(* SpecEdit: every mutation of PSINode and PSITreeOperations on the trees  *)
(* of a forest whose roots the caller holds, followed by validation.  A    *)
(* recursive traversal of a tree whose children lists form a cycle never   *)
(* returns: it runs out of stack.                                          *)
(***************************************************************************)
\* the number of nodes of the forests that are edited
EditNodes == 3

\* every forest of EditNodes nodes, each a CLASS node with the text "a"
InitEdit == LabelledForest(EditNodes, {<<"CLASS", "a">>})

\* some node below node lists one of its own ancestors as a child
Cyclic(m, node) ==
    node # NULL /\ \E n \in SubtreeSet(m, {node}) : n \in SubtreeSet(m, Range(Kids(m, n)))

\* a recursive operation called on a cyclic tree
EndlessRecursion(operation, node) ==
    /\ ~crashed
    /\ calls < MaxCalls
    /\ Cyclic(Mem, node)
    /\ crashed' = TRUE
    /\ calls' = calls + 1
    /\ lastOp' = [op |-> operation, node |-> node, endless |-> TRUE]
    /\ result' = NoResult
    /\ UNCHANGED <<idxVars, buildVars, heap, alive, freed, held>>

\* parent->addChild(child) by a caller that got child from getChildren() or
\* made it
AddChild(this, child) ==
    /\ ~crashed
    /\ calls < MaxCalls
    /\ Len(heap[this].children) < MaxChildren
    /\ Outcome([m |-> addChild(Mem, this, child, TRUE), ub |-> FALSE])
    /\ lastOp' = [op |-> "addChild", node |-> this, child |-> child]
    /\ result' = NoResult
    /\ UNCHANGED <<idxVars, buildVars, held>>

RemoveChild(this, index) ==
    /\ ~crashed
    /\ calls < MaxCalls
    /\ Outcome(removeChild(Mem, held, this, index))
    /\ lastOp' = [op |-> "removeChild", node |-> this, index |-> index]
    /\ result' = NoResult
    /\ UNCHANGED <<idxVars, buildVars, held>>

ClearChildren(this) ==
    /\ ~crashed
    /\ calls < MaxCalls
    /\ Outcome(clearChildren(Mem, held, this))
    /\ lastOp' = [op |-> "clearChildren", node |-> this]
    /\ result' = NoResult
    /\ UNCHANGED <<idxVars, buildVars, held>>

CopyNode(source, target_parent) ==
    /\ ~crashed
    /\ calls < MaxCalls
    /\ ~Cyclic(Mem, source)
    /\ target_parent # NULL => Len(heap[target_parent].children) < MaxChildren
    /\ Outcome(copyNode(Mem, held, source, target_parent))
    /\ lastOp' = [op |-> "copyNode", node |-> source, target_parent |-> target_parent]
    /\ result' = NoResult
    /\ UNCHANGED <<idxVars, buildVars, held>>

ValidateTree(root_) ==
    /\ ~crashed
    /\ calls < MaxCalls
    /\ ~Cyclic(Mem, root_)
    /\ Outcome([m |-> Mem, ub |-> root_ # NULL /\ ~(SubtreeSet(Mem, {root_}) \subseteq alive)])
    /\ result' = validateTree(Mem, root_)
    /\ lastOp' = [op |-> "validateTree", node |-> root_]
    /\ UNCHANGED <<idxVars, buildVars, held>>

NextEdit ==
    \/ \E this \in alive : \E child \in alive \cup {NULL} : AddChild(this, child)
    \/ \E this \in alive : \E index \in 0..MaxChildren : RemoveChild(this, index)
    \/ \E this \in alive : ClearChildren(this)
    \/ \E node \in alive \cup {NULL} : \E keep_children \in BOOLEAN :
          RemoveNode(node, keep_children)
    \/ \E node \in alive \cup {NULL} : \E new_parent \in alive \cup {NULL} :
          MoveNode(node, new_parent)
    \/ \E source \in alive \cup {NULL} : \E target_parent \in alive \cup {NULL} :
          CopyNode(source, target_parent)
    \/ \E node \in alive \cup {NULL} : ~Cyclic(Mem, node) /\ OptimizeTree(node)
    \/ \E root_ \in alive \cup {NULL} : ValidateTree(root_)
    \/ \E node \in alive :
          \E operation \in {"copyNode", "optimizeTree", "validateTree"} :
              EndlessRecursion(operation, node)

SpecEdit == InitEdit /\ [][NextEdit]_vars

(***************************************************************************)
(* Visitors (PSIVisitor, FindVisitor).  A visit is modelled by what it     *)
(* leaves behind: the nodes visitNode was reached for, in call order, or   *)
(* the found_node_ of a FindVisitor.                                       *)
(***************************************************************************)
\* PSINamespaceNode::PSINamespaceNode
PSINamespaceNode(name, location) ==
    [PSINode("NAMESPACE", name, location) EXCEPT !.class = "PSINamespaceNode"]

\* PSIVisitor::visit, X::accept, PSIVisitor::visitNode with no method
\* overridden: visitFile, visitNamespace, visitClass, visitFunction and
\* visitVariable all call visitNode; PSINode::accept has an empty body
RECURSIVE visit(_, _)
RECURSIVE accept(_, _)
RECURSIVE visitNode(_, _)
RECURSIVE visitChildren(_, _)
visit(m, node) == IF node = NULL THEN <<>> ELSE accept(m, node)

accept(m, node) ==
    CASE m.heap[node].class = "PSIFileNode" -> visitNode(m, node)
      [] m.heap[node].class = "PSINamespaceNode" -> visitNode(m, node)
      [] m.heap[node].class = "PSIClassNode" -> visitNode(m, node)
      [] m.heap[node].class = "PSIFunctionNode" -> visitNode(m, node)
      [] m.heap[node].class = "PSIVariableNode" -> visitNode(m, node)
      [] m.heap[node].class = "PSINode" -> <<>>

visitNode(m, node) ==
    IF node = NULL THEN <<>> ELSE <<node>> \o visitChildren(m, Kids(m, node))

\* the loop of visitNode over node->getChildren()
visitChildren(m, list) ==
    IF list = <<>> THEN <<>>
    ELSE visit(m, Head(list)) \o visitChildren(m, Tail(list))

\* FindVisitor<PSINode>::visit, which overrides PSIVisitor::visit: the value
\* of found_node_ after the call; predicate is the function from node
\* addresses to what predicate_ answers
RECURSIVE FindVisitor_visit(_, _, _, _)
RECURSIVE FindVisitor_visitChildren(_, _, _, _)
FindVisitor_visit(m, node, predicate, found_node_) ==
    IF predicate[node] THEN node
    ELSE IF m.heap[node].class = "PSINode" THEN found_node_
    ELSE FindVisitor_visitChildren(m, Kids(m, node), predicate, found_node_)

\* the loop of visitNode with the FindVisitor as the visitor
FindVisitor_visitChildren(m, list, predicate, found_node_) ==
    IF list = <<>> THEN found_node_
    ELSE FindVisitor_visitChildren(m, Tail(list), predicate,
                                   FindVisitor_visit(m, Head(list), predicate, found_node_))

(***************************************************************************)
(* SpecVisit: a default PSIVisitor or a FindVisitor<PSINode> visits any    *)
(* node of a forest whose nodes are of any of the node classes.            *)
(***************************************************************************)
\* the number of nodes of the forests that are visited
VisitNodes == 3

\* every forest of VisitNodes nodes, each of one of the node classes
InitVisit ==
    /\ EmptyIndex
    /\ stubs = <<>>
    /\ root = NULL
    /\ crashed = FALSE
    /\ calls = 0
    /\ freed = {}
    /\ alive = 1..VisitNodes
    /\ \E pv \in ParentVectors(VisitNodes) : \E object \in [1..VisitNodes ->
              {PSIFileNode(FileA),
               PSINamespaceNode("n", SourceLocation(FileA, 1, 1)),
               PSIClassNode("c", SourceLocation(FileA, 1, 1), FALSE),
               PSIFunctionNode("f", SourceLocation(FileA, 1, 1)),
               PSIVariableNode("v", SourceLocation(FileA, 1, 1)),
               PSINode("CLASS", "g", SourceLocation(FileA, 1, 1))}] :
          /\ heap = [i \in 1..VisitNodes |->
                        [object[i] EXCEPT !.parent = pv[i],
                                          !.children = ChildrenIn(pv, i, 1, VisitNodes)]]
          /\ held = {i \in 1..VisitNodes : pv[i] = 0}
    /\ lastOp = [op |-> "new"]
    /\ result = NoResult

\* PSIVisitor().visit(root_); the result is the list of visitNode calls
Visit(root_) ==
    /\ result' = visit(Mem, root_)
    /\ lastOp' = [op |-> "visit", root_ |-> root_]
    /\ UNCHANGED <<idxVars, memVars, buildVars>>

\* FindVisitor<PSINode> finder(predicate); finder.visit(root_);
\* the result is finder.getFoundNode()
Find(root_, predicate) ==
    /\ result' = FindVisitor_visit(Mem, root_, predicate, NULL)
    /\ lastOp' = [op |-> "find", root_ |-> root_, predicate |-> predicate]
    /\ UNCHANGED <<idxVars, memVars, buildVars>>

NextVisit ==
    /\ lastOp.op = "new"
    /\ \/ \E root_ \in alive \cup {NULL} : Visit(root_)
       \/ \E root_ \in alive : \E predicate \in [alive -> BOOLEAN] : Find(root_, predicate)

SpecVisit == InitVisit /\ [][NextVisit]_vars

(***************************************************************************)
(* SpecAgree: the records of one parse are added to the store one by one,  *)
(* in order, and the tree is built from the same records.                  *)
(***************************************************************************)
NextAgree ==
    \/ \E file_path \in {FileA, FileB} : BuildTreeFromContent(file_path)
    \/ /\ Len(all_entries) < Len(stubs)
       /\ AddEntry(stubs[Len(all_entries) + 1])

SpecAgree == InitBuild /\ [][NextAgree]_vars

(***************************************************************************)
(* Claims about StubIndex (checked under SpecIndex)                        *)
(***************************************************************************)
\* the records the store holds anywhere
InStore ==
    {e \in StubObjects :
        \/ Occurrences(all_entries, e) > 0
        \/ \E k \in DOMAIN name_index : Occurrences(name_index[k], e) > 0
        \/ \E k \in DOMAIN type_index : Occurrences(type_index[k], e) > 0
        \/ \E k \in DOMAIN file_index : Occurrences(file_index[k], e) > 0}

\* e occurs exactly n times in the map m, all of them in the bucket of key k
OnlyInBucket(m, k, e, n) ==
    /\ k \in DOMAIN m
    /\ Occurrences(m[k], e) = n
    /\ \A x \in DOMAIN m : x # k => Occurrences(m[x], e) = 0

\* p occurs in s: s = u \o p \o v for some u and v
IsSubstring(s, p) == \E i \in 0..Len(s) : \E j \in i..Len(s) : SubSeq(s, i + 1, j) = p

\* C5: every record present in the store appears exactly once in the
\* insertion list and exactly once in each of the name, kind and file indexes,
\* in the bucket keyed by its own name / kind / file path, and size() is the
\* length of the insertion list.
C5_ExactlyOnceEverywhere ==
    /\ \A e \in InStore :
          /\ Occurrences(all_entries, e) = 1
          /\ OnlyInBucket(name_index, e.name, e, 1)
          /\ OnlyInBucket(type_index, e.type, e, 1)
          /\ OnlyInBucket(file_index, e.file, e, 1)
    /\ size = Len(all_entries)

\* C6: queryByName(n), queryByType(k) and queryByFile(f) return exactly the
\* records added since the last clear whose name / kind / file path equals the
\* argument, in the order they were added (empty when there is none), and a
\* query leaves the store unchanged.
C6_QueryState ==
    /\ \A n \in QueryNames : queryByName(n) = SelectSeq(added, LAMBDA e : e.name = n)
    /\ \A k \in StubType : queryByType(k) = SelectSeq(added, LAMBDA e : e.type = k)
    /\ \A f \in QueryFiles : queryByFile(f) = SelectSeq(added, LAMBDA e : e.file = f)
    /\ lastOp.op = "queryByName" =>
          result = SelectSeq(added, LAMBDA e : e.name = lastOp.name)
    /\ lastOp.op = "queryByType" =>
          result = SelectSeq(added, LAMBDA e : e.type = lastOp.type)
    /\ lastOp.op = "queryByFile" =>
          result = SelectSeq(added, LAMBDA e : e.file = lastOp.file)

IsQueryOp(op) == op \in {"queryByName", "queryByType", "queryByFile", "query", "size"}

C7_AsStated ==
    lastOp.op = "query" =>
        LET f == lastOp.filter
            K == f.type_filter
        IN /\ \A i \in 1..Len(result) : result[i].type = K
           /\ f.name_pattern # "" =>
                 result = SelectSeq(added, LAMBDA e : e.name = f.name_pattern /\ e.type = K)
           /\ (f.name_pattern = "" /\ f.file_pattern = EmptyStr) =>
                 result = SelectSeq(added, LAMBDA e : e.type = K)

\* C7 amended: the kind K of the filter is honoured unless it is the sentinel
\* of the branch taken (TYPEDEF with a non-empty name, CLASS with an empty
\* name).  Outside the sentinels every record returned has kind K; with a
\* non-empty name N the result is the records named N of kind K whose file
\* path contains the file pattern; with empty name and file patterns it is
\* queryByType(K).
C7_KindHonouredOutsideSentinels ==
    lastOp.op = "query" =>
        LET f == lastOp.filter
            K == f.type_filter
            sentinel == IF f.name_pattern # "" THEN "TYPEDEF" ELSE "CLASS"
        IN K # sentinel =>
              /\ \A i \in 1..Len(result) : result[i].type = K
              /\ f.name_pattern # "" =>
                    result = SelectSeq(added, LAMBDA e :
                                 /\ e.name = f.name_pattern
                                 /\ e.type = K
                                 /\ IsSubstring(e.file, f.file_pattern))
              /\ (f.name_pattern = "" /\ f.file_pattern = EmptyStr) =>
                    result = SelectSeq(added, LAMBDA e : e.type = K)

C7_Witness ==
    /\ lastOp.op = "query"
    /\ lastOp.filter = [type_filter |-> "CLASS", name_pattern |-> "Data", file_pattern |-> EmptyStr]
    /\ Len(result) = 1
    /\ Len(added) = 3
    /\ \E i \in 1..Len(added) : added[i].name = "Data" /\ added[i].type = "FUNCTION"

\* C8: query(filter) follows the precedence (a) non-empty name: the name
\* bucket, kept when the kind matches (unless the kind is TYPEDEF) and the file
\* path contains the file pattern; (b) else kind not CLASS: the kind bucket
\* filtered by file-path substring; (c) else non-empty file pattern: the bucket
\* of the file whose path equals the pattern; (d) else every record in
\* insertion order.
C8_Expected(f) ==
    IF f.name_pattern # ""
    THEN SelectSeq(added, LAMBDA e :
             /\ e.name = f.name_pattern
             /\ (f.type_filter = "TYPEDEF" \/ e.type = f.type_filter)
             /\ IsSubstring(e.file, f.file_pattern))
    ELSE IF f.type_filter # "CLASS"
         THEN SelectSeq(added, LAMBDA e :
                  e.type = f.type_filter /\ IsSubstring(e.file, f.file_pattern))
         ELSE IF f.file_pattern # EmptyStr
              THEN SelectSeq(added, LAMBDA e : e.file = f.file_pattern)
              ELSE added

C8_QueryPrecedence ==
    /\ \A f \in QueryFilter : query(f) = C8_Expected(f)
    /\ lastOp.op = "query" => result = C8_Expected(lastOp.filter)

\* branch (b) with a proper substring match, while branch (c) on the same
\* pattern would need equality
C8_Witness ==
    /\ lastOp.op = "query"
    /\ lastOp.filter = [type_filter |-> "FUNCTION", name_pattern |-> "", file_pattern |-> FileB]
    /\ Len(result) = 1
    /\ result[1].file = FileAB
    /\ Len(added) = 3

(***************************************************************************)
(* Claims about PSITreeBuilder (checked under SpecBuild)                   *)
(***************************************************************************)
\* C1: in the tree buildTreeFromContent returns, the File root has no parent
\* and every other node has a parent whose children list contains the node
\* exactly once, so getValidationErrors(root) is empty.
C1_BuiltTreeWellFormed ==
    root # NULL =>
        /\ heap[root].type = "FILE"
        /\ heap[root].parent = NULL
        /\ alive = {root} \cup Range(getAllDescendants(Mem, root))
        /\ \A n \in alive \ {root} :
              /\ heap[n].parent # NULL
              /\ heap[n].parent \in alive
              /\ Occurrences(Kids(Mem, heap[n].parent), n) = 1
        /\ getValidationErrors(Mem, root) = <<>>
        /\ (lastOp.op = "getValidationErrors" /\ lastOp.root = root) => result = <<>>

C1_Witness ==
    /\ root # NULL
    /\ Len(Kids(Mem, root)) = 3
    /\ lastOp.op = "getValidationErrors"
    /\ lastOp.root = root
    /\ result = <<>>

\* the group a node kind belongs to in the built tree
KindGroup(type) ==
    CASE type \in {"CLASS", "STRUCT"} -> "CLASS"
      [] type = "FUNCTION" -> "FUNCTION"
      [] type = "VARIABLE" -> "VARIABLE"
      [] OTHER -> "OTHER"

\* <<group, text>> of each node of a list of addresses
RECURSIVE GroupAndText(_)
GroupAndText(list) ==
    IF list = <<>> THEN <<>>
    ELSE <<[group |-> KindGroup(heap[Head(list)].type), text |-> heap[Head(list)].text]>>
         \o GroupAndText(Tail(list))

\* <<kind, name>> of each record of kind k, in the records' order
RECURSIVE RecordsOfKind(_, _)
RecordsOfKind(list, k) ==
    IF list = <<>> THEN <<>>
    ELSE (IF Head(list).type = k
          THEN <<[group |-> k, text |-> Head(list).name]>>
          ELSE <<>>)
         \o RecordsOfKind(Tail(list), k)

C3_RemoveKeepChildren ==
    (/\ lastOp.op = "removeNode"
     /\ lastOp.node # NULL
     /\ lastOp.keep_children
     /\ lastOp.parent # NULL
     /\ Len(lastOp.children) = 2
     /\ lastOp.wellFormed) =>
        LET node == lastOp.node
            P == lastOp.parent
        IN /\ ~crashed
           /\ Occurrences(Kids(Mem, P), node) = 0
           /\ \A c \in Range(lastOp.children) :
                 Occurrences(Kids(Mem, P), c) = 1 /\ heap[c].parent = P
           /\ node \in alive => heap[node].parent = NULL

\* C4: moveNode(node, newParent) with both non-null is an ownership
\* transfer: node is absent from its former parent's children list, present
\* exactly once in newParent's list with node.parent = newParent, and still
\* alive and owned by the tree.  (Stated for a well-formed tree, a node only
\* the tree owns, and a new parent that is neither the former parent nor
\* inside the node's subtree.)
C4_MoveIsOwnershipTransfer ==
    (/\ lastOp.op = "moveNode"
     /\ lastOp.node # NULL
     /\ lastOp.new_parent # NULL
     /\ lastOp.wellFormed
     /\ ~lastOp.inside
     /\ lastOp.parent # NULL
     /\ lastOp.parent # lastOp.new_parent
     /\ lastOp.node \notin held) =>
        LET node == lastOp.node
            new_parent == lastOp.new_parent
        IN /\ ~crashed
           /\ Occurrences(Kids(Mem, lastOp.parent), node) = 0
           /\ Occurrences(Kids(Mem, new_parent), node) = 1
           /\ heap[node].parent = new_parent
           /\ node \in alive
           /\ OwningEntries(heap[new_parent].children, node) = 1

(***************************************************************************)
(* Claims about similarity (checked under SpecSim)                         *)
(***************************************************************************)
\* C9: calculateSimilarity(T, T) is exactly 1.0 for every non-empty tree T,
\* a single childless node as well as a tree with children.
C9_SelfSimilarityIsOne ==
    (/\ lastOp.op = "calculateSimilarity"
     /\ lastOp.tree1 # NULL
     /\ lastOp.tree1 = lastOp.tree2) => result = One

\* the node score as the claim words it: 0 when the kinds differ, else 0.5
\* for equal text, 0.3 for equal child count and 0.2 times the average score
\* of the first min(childCount) child pairs, paired by index
RECURSIVE NodeScore(_, _)
RECURSIVE SumFracs(_, _)
SumFracs(S, f) ==
    IF S = {} THEN Zero
    ELSE LET i == CHOOSE x \in S : TRUE
         IN FracAdd(f[i], SumFracs(S \ {i}, f))

NodeScore(a, b) ==
    IF heap[a].type # heap[b].type THEN Zero
    ELSE LET ka == Kids(Mem, a)
             kb == Kids(Mem, b)
             n == Min(Len(ka), Len(kb))
             pairScore == [i \in 1..n |-> NodeScore(ka[i], kb[i])]
             textPart == IF heap[a].text = heap[b].text THEN Half ELSE Zero
             countPart == IF Len(ka) = Len(kb) THEN ThreeTenths ELSE Zero
             childPart == IF n = 0 THEN Zero
                          ELSE FracMul(OneFifth, FracDivInt(SumFracs(1..n, pairScore), n))
         IN FracAdd(FracAdd(textPart, countPart), childPart)

SizeScore(a, b) ==
    LET size1 == Cardinality(SubtreeSet(Mem, {a}))
        size2 == Cardinality(SubtreeSet(Mem, {b}))
    IN FracSub(One, Frac(Abs(size1 - size2), Max(size1, size2)))

\* C10: calculateSimilarity is 0 when either argument is null; for two
\* non-null trees it is greater than 0 and at most 1 and equals
\* (nodeScore + sizeScore) / 2.
C10_SimilarityValue ==
    lastOp.op = "calculateSimilarity" =>
        IF lastOp.tree1 = NULL \/ lastOp.tree2 = NULL
        THEN result = Zero
        ELSE /\ FracLess(Zero, result)
             /\ FracLeq(result, One)
             /\ FracAdd(result, result) =
                   FracAdd(NodeScore(lastOp.tree1, lastOp.tree2),
                           SizeScore(lastOp.tree1, lastOp.tree2))

\* two different trees with children, of different sizes and child counts
C10_Witness ==
    /\ lastOp.op = "calculateSimilarity"
    /\ lastOp.tree1 # NULL
    /\ lastOp.tree2 # NULL
    /\ lastOp.tree1 # lastOp.tree2
    /\ Len(Kids(Mem, lastOp.tree1)) = 2
    /\ Len(Kids(Mem, lastOp.tree2)) = 1
    /\ heap[lastOp.tree1].type = heap[lastOp.tree2].type
    /\ FracLess(Zero, result)
    /\ FracLess(result, One)

(***************************************************************************)
(* Claims about findDifferences (checked under SpecDiff)                   *)
(***************************************************************************)
\* the nodes of the tree at node, the root first, in pre-order
PreOrder(m, node) == IF node = NULL THEN <<>> ELSE <<node>> \o collectDescendants(m, node)

\* C11: findDifferences(t1, t2) for non-null trees returns exactly the nodes
\* of t1, its root included, for which no node of t2, its root included, has
\* the same kind and the same text, in pre-order of t1; findDifferences(T, T)
\* is empty.
C11_DifferencesCountRoots ==
    (/\ lastOp.op = "findDifferences"
     /\ lastOp.tree1 # NULL
     /\ lastOp.tree2 # NULL) =>
        LET matched(n) ==
                \E k \in SubtreeSet(Mem, {lastOp.tree2}) :
                    heap[n].type = heap[k].type /\ heap[n].text = heap[k].text
        IN /\ result = SelectSeq(PreOrder(Mem, lastOp.tree1), LAMBDA n : ~matched(n))
           /\ lastOp.tree1 = lastOp.tree2 => result = <<>>

(***************************************************************************)
(* Claims about optimizeTree (checked under SpecOpt)                       *)
(***************************************************************************)
\* the nodes the claim says a call removes: in the tree, not the root,
\* childless at the moment of the call, neither Function nor Variable
C12_Removed ==
    {n \in lastOp.nodes :
        /\ n # lastOp.root
        /\ lastOp.children[n] = <<>>
        /\ heap[n].type \notin {"FUNCTION", "VARIABLE"}}

\* C12: optimizeTree(root) removes exactly the nodes that, at the moment of
\* the call, are not the root, have no children and are not of kind Function
\* or Variable; every other node stays in place in its original order, also
\* a node that these removals leave childless.
C12_OptimizeRemovesEmptyNodes ==
    lastOp.op = "optimizeTree" =>
        /\ ~crashed
        /\ \A n \in DOMAIN lastOp.parent :
              IF n \in C12_Removed
              THEN \A p \in alive : n \notin Range(Kids(Mem, p))
              ELSE /\ n \in alive
                   /\ heap[n].parent = lastOp.parent[n]
                   /\ Kids(Mem, n) =
                         SelectSeq(lastOp.children[n], LAMBDA c : c \notin C12_Removed)

(***************************************************************************)
(* Claims about cloneSubtree (checked under SpecClone)                     *)
(***************************************************************************)
\* the <<kind, text>> pairs of a list of nodes
KindAndText(m, list) == [i \in 1..Len(list) |-> <<m.heap[list[i]].type, m.heap[list[i]].text>>]

\* every node of the tree at node is the parent of each of its children
ParentLinksConsistent(m, node) ==
    \A n \in SubtreeSet(m, {node}) :
        \A i \in 1..Len(Kids(m, n)) : m.heap[Kids(m, n)[i]].parent = n

\* the memory before the call is still there, untouched
Untouched(before) ==
    /\ \A a \in DOMAIN before.heap : heap[a] = before.heap[a]
    /\ before.alive \subseteq alive
    /\ freed = before.freed

\* C13: for every non-null tree, cloneSubtree(root) returns a tree of fresh
\* nodes whose root has no parent, with the same subtree size as root, the
\* same pre-order sequence of (kind, text) pairs and consistent parent
\* links; the original tree is unchanged.
C13_CloneIsFaithful ==
    (lastOp.op = "cloneSubtree" /\ lastOp.root # NULL) =>
        /\ result # NULL
        /\ SubtreeSet(Mem, {result}) \cap DOMAIN lastOp.before.heap = {}
        /\ SubtreeSet(Mem, {result}) \subseteq alive
        /\ heap[result].parent = NULL
        /\ Cardinality(SubtreeSet(Mem, {result})) = getSubtreeSize(lastOp.before, lastOp.root)
        /\ KindAndText(Mem, PreOrder(Mem, result)) =
              KindAndText(lastOp.before, PreOrder(lastOp.before, lastOp.root))
        /\ ParentLinksConsistent(Mem, result)
        /\ Untouched(lastOp.before)

\* a subtree three levels deep, hanging under a parent, was cloned
C13_Witness ==
    /\ lastOp.op = "cloneSubtree"
    /\ lastOp.root # NULL
    /\ lastOp.before.heap[lastOp.root].parent # NULL
    /\ \E c \in Range(Kids(Mem, result)) : Kids(Mem, c) # <<>>
    /\ heap[result].parent = NULL

(***************************************************************************)
(* Claims about transformTree (checked under SpecTransform)                *)
(***************************************************************************)
\* the nodes on the way from node up to root, both included (node is in the
\* tree at root)
RECURSIVE PathUpTo(_, _, _)
PathUpTo(m, node, top) ==
    IF node = top \/ m.heap[node].parent = NULL THEN {node}
    ELSE {node} \cup PathUpTo(m, m.heap[node].parent, top)

\* the nodes of the tree at top with nothing of `gone` on the way up to top
Surviving(m, top, gone) ==
    {n \in SubtreeSet(m, {top}) : PathUpTo(m, n, top) \cap gone = {}}

\* a tree as a value: what each node carries and the shapes of its children
RECURSIVE Shape(_, _)
Shape(m, node) ==
    [type |-> m.heap[node].type, text |-> m.heap[node].text,
     location |-> m.heap[node].location, semantic_info |-> m.heap[node].semantic_info,
     kids |-> [i \in 1..Len(Kids(m, node)) |-> Shape(m, Kids(m, node)[i])]]

\* the shape of the tree at node cut down to the nodes of keep, each node
\* carrying what carry[node] carries
RECURSIVE ShapeOfKept(_, _, _, _)
ShapeOfKept(m, node, keep, carry) ==
    LET kept == SelectSeq(Kids(m, node), LAMBDA c : c \in keep)
    IN [type |-> carry[node].type, text |-> carry[node].text,
        location |-> carry[node].location, semantic_info |-> carry[node].semantic_info,
        kids |-> [i \in 1..Len(kept) |-> ShapeOfKept(m, kept[i], keep, carry)]]

\* C14: transformTree prunes whole subtrees: when the mapper returns no
\* replacement for a node, the output has no image of that node nor of its
\* descendants and the mapper is never applied to those descendants; no
\* replacement for the root gives null; the images of the surviving nodes
\* keep the original parent/child relation and sibling order.
C14_PruningPropagates ==
    (lastOp.op = "transformTree" /\ lastOp.root # NULL) =>
        LET before == lastOp.before
            gone == lastOp.removed
            survivors == Surviving(before, lastOp.root, gone)
            mapper == UpperTransformer(before, gone)
        IN /\ lastOp.root \in gone <=> result = NULL
           /\ \A n \in Range(lastOp.applied) :
                 PathUpTo(before, n, lastOp.root) \cap gone \subseteq {n}
           /\ survivors \subseteq Range(lastOp.applied)
           /\ result # NULL =>
                 /\ Shape(Mem, result) = ShapeOfKept(before, lastOp.root, survivors, mapper)
                 /\ Cardinality(SubtreeSet(Mem, {result})) = Cardinality(survivors)
                 /\ ParentLinksConsistent(Mem, result)
                 /\ heap[result].parent = NULL
           /\ result = NULL => heap = before.heap

\* the mapper removed an inner node that has a child, under a root that
\* keeps another child
C14_Witness ==
    /\ lastOp.op = "transformTree"
    /\ result # NULL
    /\ \E n \in lastOp.removed :
          /\ lastOp.before.heap[n].parent = lastOp.root
          /\ Kids(lastOp.before, n) # <<>>
          /\ Range(Kids(lastOp.before, n)) \cap lastOp.removed = {}
    /\ Len(Kids(Mem, result)) = 1
    /\ Kids(Mem, Kids(Mem, result)[1]) = <<>>

(***************************************************************************)
(* Claims about simplifyTree and flattenHierarchy (checked under           *)
(* SpecRewrite)                                                            *)
(***************************************************************************)
\* kind, text and the outlines of the children, in order
RECURSIVE Outline(_, _)
Outline(m, node) ==
    [type |-> m.heap[node].type, text |-> m.heap[node].text,
     kids |-> [i \in 1..Len(Kids(m, node)) |-> Outline(m, Kids(m, node)[i])]]

\* the outline of the tree at node cut down to the nodes of keep
RECURSIVE OutlineOfKept(_, _, _)
OutlineOfKept(m, node, keep) ==
    LET kept == SelectSeq(Kids(m, node), LAMBDA c : c \in keep)
    IN [type |-> m.heap[node].type, text |-> m.heap[node].text,
        kids |-> [i \in 1..Len(kept) |-> OutlineOfKept(m, kept[i], keep)]]

\* File, Type (a class node or a struct node), Function or Variable
CoreKinds == {"FILE", "CLASS", "STRUCT", "FUNCTION", "VARIABLE"}

\* C15: simplifyTree(root) keeps, as generic nodes with the same kind, text
\* and relative order, exactly the nodes whose own kind and the kinds of all
\* their ancestors are File, Type (class or struct), Function or Variable,
\* and drops every other node together with its descendants.
C15_SimplifyKeepsCoreKinds ==
    (lastOp.op = "simplifyTree" /\ lastOp.root # NULL) =>
        LET before == lastOp.before
            other == {n \in DOMAIN before.heap : before.heap[n].type \notin CoreKinds}
            kept == Surviving(before, lastOp.root, other)
        IN IF lastOp.root \in other THEN result = NULL
           ELSE /\ result # NULL
                /\ Outline(Mem, result) = OutlineOfKept(before, lastOp.root, kept)
                /\ \A n \in SubtreeSet(Mem, {result}) : heap[n].class = "PSINode"

\* C17: for any non-null tree and any maxDepth d >= 1, the tree returned by
\* flattenHierarchy(root, d) has getTreeDepth at most d.
C17_FlattenedDepthAtMostLimit ==
    (lastOp.op = "flattenHierarchy" /\ lastOp.root # NULL) =>
        getTreeDepth(Mem, result) <= lastOp.max_depth

(***************************************************************************)
(* Claims about removeNodesByType (checked under SpecRemove)               *)
(***************************************************************************)
\* removeNodesByType was called on a tree whose root is not of the kind
C16_Case ==
    /\ lastOp.op = "removeNodesByType"
    /\ lastOp.root # NULL
    /\ lastOp.before.heap[lastOp.root].type # lastOp.type_to_remove

\* C16 as stated: for any tree whose root is not of kind K,
\* removeNodesByType(root, K) returns a tree with no node of kind K and, for
\* every other kind, as many nodes as the input tree has.
C16_AsStated ==
    C16_Case =>
        /\ findAllNodes(Mem, result, lastOp.type_to_remove) = <<>>
        /\ \A kind \in PSINodeType \ {lastOp.type_to_remove} :
              Len(findAllNodes(Mem, result, kind)) =
                 Len(findAllNodes(lastOp.before, lastOp.root, kind))

\* C16 (amended): for any tree whose root is not of kind K,
\* removeNodesByType(root, K) returns a tree with no node of kind K and, for
\* every other kind, as many nodes as the input tree has outside the
\* subtrees of its nodes of kind K.
C16_CountsOutsideRemovedSubtrees ==
    C16_Case =>
        LET before == lastOp.before
            ofKind == {n \in DOMAIN before.heap : before.heap[n].type = lastOp.type_to_remove}
            outside == Surviving(before, lastOp.root, ofKind)
        IN /\ result # NULL
           /\ findAllNodes(Mem, result, lastOp.type_to_remove) = <<>>
           /\ \A kind \in PSINodeType \ {lastOp.type_to_remove} :
                 Len(findAllNodes(Mem, result, kind)) =
                    Cardinality({n \in outside : before.heap[n].type = kind})

\* a node of the removed kind had a child of another kind, which went with it
C16_Witness ==
    /\ C16_Case
    /\ \E n \in SubtreeSet(lastOp.before, {lastOp.root}) :
          /\ lastOp.before.heap[n].type = lastOp.type_to_remove
          /\ \E c \in Range(Kids(lastOp.before, n)) :
                /\ lastOp.before.heap[c].type # lastOp.type_to_remove
                /\ findAllNodes(Mem, result, lastOp.before.heap[c].type) = <<>>

(***************************************************************************)
(* Claims about mergeTrees and overlayTrees (checked under SpecCombine)    *)
(***************************************************************************)
\* the direct children of every non-null tree of the list, in input order
RECURSIVE ChildrenOfAll(_, _)
ChildrenOfAll(m, trees) ==
    IF trees = <<>> THEN <<>>
    ELSE (IF Head(trees) = NULL THEN <<>> ELSE Kids(m, Head(trees)))
         \o ChildrenOfAll(m, Tail(trees))

\* the sum over the non-null trees of the list of (subtree size - 1)
RECURSIVE NodesBelowRoots(_, _)
NodesBelowRoots(m, trees) ==
    IF trees = <<>> THEN 0
    ELSE (IF Head(trees) = NULL THEN 0
          ELSE Cardinality(SubtreeSet(m, {Head(trees)})) - 1)
         + NodesBelowRoots(m, Tail(trees))

\* C18: mergeTrees(trees) for a non-empty list returns a new parentless File
\* node with text "merged" whose children are, in input order, deep clones
\* (same kinds, texts and semantic info, in the same shape) of every direct
\* child of every non-null input tree; the input roots are not included, so
\* the result has 1 + sum of (subtreeSize - 1) nodes; the inputs are unchanged.
C18_MergeClonesChildren ==
    (lastOp.op = "mergeTrees" /\ lastOp.trees # <<>>) =>
        LET before == lastOp.before
            expected == ChildrenOfAll(before, lastOp.trees)
        IN /\ result # NULL
           /\ SubtreeSet(Mem, {result}) \cap DOMAIN before.heap = {}
           /\ heap[result].parent = NULL
           /\ heap[result].type = "FILE"
           /\ heap[result].text = "merged"
           /\ Len(Kids(Mem, result)) = Len(expected)
           /\ \A i \in 1..Len(expected) :
                 /\ Shape(Mem, Kids(Mem, result)[i]) = Shape(before, expected[i])
                 /\ KindAndText(Mem, PreOrder(Mem, Kids(Mem, result)[i])) =
                       KindAndText(before, PreOrder(before, expected[i]))
           /\ Cardinality(SubtreeSet(Mem, {result})) = 1 + NodesBelowRoots(before, lastOp.trees)
           /\ ParentLinksConsistent(Mem, result)
           /\ Untouched(before)

\* two different trees were merged, one of them with a grandchild that
\* carries semantic info, and both gave children to the result
C18_Witness ==
    /\ lastOp.op = "mergeTrees"
    /\ Len(lastOp.trees) = 2
    /\ lastOp.trees[1] # NULL
    /\ lastOp.trees[2] # NULL
    /\ lastOp.trees[1] # lastOp.trees[2]
    /\ Len(Kids(Mem, result)) = 2
    /\ \E c \in Range(Kids(Mem, result)) : \E g \in Range(Kids(Mem, c)) :
          heap[g].semantic_info = PublicInfo

\* C19: the result of overlayTrees(base, overlay) does not depend on the
\* overlay argument: for a null base it is null, and for a non-null base and
\* any two overlay arguments (null or any tree) the two results are
\* structurally equal generic clones of base (same shape, kinds, texts,
\* locations and semantic info), with nothing taken from the overlay tree.
C19_OverlayIgnoresOverlay ==
    lastOp.op = "overlayTrees" =>
        LET before == lastOp.before
        IN IF lastOp.base_tree = NULL THEN result = NULL /\ heap = before.heap
           ELSE /\ result # NULL
                /\ \A other \in before.alive \cup {NULL} :
                      LET again == overlayTrees(before, lastOp.base_tree, other)
                      IN Shape(again.m, again.node) = Shape(Mem, result)
                /\ Shape(Mem, result) = Shape(before, lastOp.base_tree)
                /\ SubtreeSet(Mem, {result}) \cap DOMAIN before.heap = {}
                /\ \A n \in SubtreeSet(Mem, {result}) : heap[n].class = "PSINode"
                /\ heap[result].parent = NULL
                /\ ParentLinksConsistent(Mem, result)
                /\ Untouched(before)

\* a base with a child that carries semantic info was overlaid with a
\* different, non-null tree
C19_Witness ==
    /\ lastOp.op = "overlayTrees"
    /\ lastOp.base_tree # NULL
    /\ lastOp.overlay_tree # NULL
    /\ lastOp.overlay_tree \notin SubtreeSet(lastOp.before, {lastOp.base_tree})
    /\ lastOp.before.heap[lastOp.overlay_tree].type # lastOp.before.heap[lastOp.base_tree].type
    /\ \E c \in Range(Kids(Mem, result)) : heap[c].semantic_info = PublicInfo

(***************************************************************************)
(* Claims about PSITreeQuery (checked under SpecQuery)                     *)
(***************************************************************************)
\* the nodes findAllNodes(root, kind) returns for some kind
FoundOfAnyKind(m, node) ==
    UNION {Range(findAllNodes(m, node, kind)) : kind \in PSINodeType}

\* C20: PSITreeQuery(root).execute() with no filters returns every node of
\* the tree at root, exactly once each, in pre-order, so its count equals
\* getSubtreeSize(root) and its node set equals the union over all kinds of
\* findAllNodes(root, kind); on a null root it returns the empty list.
C20_UnfilteredQueryIsTraversal ==
    (lastOp.op = "execute" /\ lastOp.query.filters_ = <<>>) =>
        LET tree == lastOp.query.root_
        IN IF tree = NULL THEN result = <<>>
           ELSE /\ result = PreOrder(Mem, tree)
                /\ Range(result) = SubtreeSet(Mem, {tree})
                /\ \A n \in Range(result) : Occurrences(result, n) = 1
                /\ count(Mem, lastOp.query) = getSubtreeSize(Mem, tree)
                /\ Len(result) = getSubtreeSize(Mem, tree)
                /\ Range(result) = FoundOfAnyKind(Mem, tree)

\* an unfiltered query ran over a tree whose first child has a child of its
\* own and a later sibling
C20_Witness ==
    /\ lastOp.op = "execute"
    /\ lastOp.query.filters_ = <<>>
    /\ lastOp.query.root_ # NULL
    /\ Len(Kids(Mem, lastOp.query.root_)) = 2
    /\ Kids(Mem, Kids(Mem, lastOp.query.root_)[1]) # <<>>
    /\ Len(result) = 4

(***************************************************************************)
(* Claims about chained PSITreeQuery filters (checked under SpecQuery)     *)
(***************************************************************************)
\* the orders in which the filters of a list of length n can be chained
ChainOrders(n) ==
    {p \in [1..n -> 1..n] : \A i, j \in 1..n : p[i] = p[j] => i = j}

\* the query q with its filters chained in the order p
Reordered(q, p) ==
    [q EXCEPT !.filters_ = [i \in 1..Len(q.filters_) |-> q.filters_[p[i]]]]

\* the nodes of the tree of q that every filter of q accepts, in pre-order
AcceptedInPreOrder(m, q) ==
    LET all(n) == \A i \in 1..Len(q.filters_) : FilterAccepts(m, q.filters_[i], n)
    IN SelectSeq(PreOrder(m, q.root_), all)

\* C21: for any tree and any chain of PSITreeQuery filters, execute() returns
\* exactly the pre-order nodes that satisfy every filter, so every permutation
\* of the same filter calls gives the same list; first() is the first element
\* of that list (null when it is empty) and count() is its length.
C21_FiltersAreConjunction ==
    lastOp.op = "execute" =>
        LET q == lastOp.query
        IN /\ result = AcceptedInPreOrder(Mem, q)
           /\ \A p \in ChainOrders(Len(q.filters_)) :
                  execute(Mem, Reordered(q, p)) = result
           /\ first(Mem, q) = (IF result = <<>> THEN NULL ELSE result[1])
           /\ count(Mem, q) = Len(result)

\* a query with two different filters ran; each filter alone accepts a node
\* the other rejects, and the list returned has a node that is not the first
\* in pre-order
C21_Witness ==
    /\ lastOp.op = "execute"
    /\ Len(lastOp.query.filters_) = 2
    /\ lastOp.query.root_ # NULL
    /\ LET q == lastOp.query
           tree == SubtreeSet(Mem, {q.root_})
       IN /\ \E n \in tree : /\ FilterAccepts(Mem, q.filters_[1], n)
                             /\ ~FilterAccepts(Mem, q.filters_[2], n)
          /\ \E n \in tree : /\ FilterAccepts(Mem, q.filters_[2], n)
                             /\ ~FilterAccepts(Mem, q.filters_[1], n)
          /\ result # <<>>
          /\ result[1] # q.root_

(***************************************************************************)
(* Claims about null arguments and paths (checked under SpecNav)           *)
(***************************************************************************)
\* C22: on a null root findAllNodes, findNodesByCondition, findNodesByName,
\* findNodesInFile, findNodesInLineRange, getAllDescendants, getLeafNodes and
\* getBranchNodes return an empty list, findFirstNodeByName returns null, and
\* getSubtreeSize and getTreeDepth return 0.
C22_NullRootGivesIdentity ==
    (lastOp.op # "new" /\ "root_" \in DOMAIN lastOp /\ lastOp.root_ = NULL) =>
        CASE lastOp.op \in {"findAllNodes", "findNodesByCondition", "findNodesByName",
                            "findNodesInFile", "findNodesInLineRange",
                            "getAllDescendants", "getLeafNodes", "getBranchNodes"} ->
                result = <<>>
          [] lastOp.op = "findFirstNodeByName" -> result = NULL
          [] lastOp.op \in {"getSubtreeSize", "getTreeDepth"} -> result = 0
          [] OTHER -> TRUE

\* C23: the hierarchy and path operations never dereference a null argument:
\* getAncestors(null) returns an empty list, findCommonAncestor with a null
\* argument returns null, getNodePath(null) returns the empty string, and
\* findNodeByPath(null, p) returns null for every path p, also for a path
\* with a non-empty segment.
C23_NullArgumentsAreSafe ==
    /\ (lastOp.op = "getAncestors" /\ lastOp.node = NULL) =>
          ~crashed /\ result = <<>>
    /\ (lastOp.op = "findCommonAncestor" /\ NULL \in {lastOp.node1, lastOp.node2}) =>
          ~crashed /\ result = NULL
    /\ (lastOp.op = "getNodePath" /\ lastOp.node = NULL) =>
          ~crashed /\ result = <<>>
    /\ (lastOp.op = "findNodeByPath" /\ lastOp.root_ = NULL) =>
          ~crashed /\ result = NULL

\* no two children of one node of the tree at root_ have the same text, and
\* no text of the tree contains '/'
PathsAreUnambiguous(m, root_) ==
    \A n \in SubtreeSet(m, {root_}) :
        /\ \A i, j \in 1..Len(Kids(m, n)) :
              m.heap[Kids(m, n)[i]].text = m.heap[Kids(m, n)[j]].text => i = j
        /\ "/" \notin Range(m.heap[n].text)

\* C28: path round trip: for every node n of a valid tree rooted at root in
\* which no two siblings share a text and no text contains '/',
\* findNodeByPath(root, getNodePath(n)) returns n, and returns root for
\* n = root.
C28_PathRoundTrip ==
    (/\ lastOp.op = "findNodeByPath"
     /\ lastOp.of # NULL
     /\ lastOp.root_ # NULL
     /\ heap[lastOp.root_].parent = NULL
     /\ lastOp.of \in SubtreeSet(Mem, {lastOp.root_})
     /\ WellFormed(Mem)
     /\ PathsAreUnambiguous(Mem, lastOp.root_)) =>
        ~crashed /\ result = lastOp.of

(***************************************************************************)
(* Claims about mutation and validation (checked under SpecEdit)           *)
(***************************************************************************)
\* every node reachable from root_ lists each of its children exactly once
\* and is the parent its children refer to
StructureInvariant(m, root_) ==
    \A n \in SubtreeSet(m, {root_}) :
        \A c \in Range(Kids(m, n)) :
            Occurrences(Kids(m, n), c) = 1 /\ m.heap[c].parent = n

\* C24: validateTree(root) returns true (getValidationErrors is empty) if and
\* only if root is non-null and, for every node reachable from root, each
\* child appears exactly once in its parent's children list and the child's
\* parent reference equals that parent; a null root yields a non-empty list
\* of diagnostics instead of a failure.
C24_ValidateIffStructure ==
    (lastOp.op = "validateTree" /\ "endless" \notin DOMAIN lastOp /\ ~crashed) =>
        /\ result = (lastOp.node # NULL /\ StructureInvariant(Mem, lastOp.node))
        /\ lastOp.node = NULL => getValidationErrors(Mem, NULL) # <<>>

\* the nodes reached from the nodes of S by following parent references
RECURSIVE AncestorSet(_, _)
AncestorSet(m, S) ==
    LET next == S \cup ({m.heap[n].parent : n \in S} \ {NULL})
    IN IF next = S THEN S ELSE AncestorSet(m, next)

\* no live node is its own ancestor, by parent references or by children lists
Acyclic(m) ==
    \A n \in m.alive :
        /\ m.heap[n].parent # NULL => n \notin AncestorSet(m, {m.heap[n].parent})
        /\ n \notin SubtreeSet(m, Range(Kids(m, n)))

\* the memory after the step
MemAfter == [heap |-> heap', alive |-> alive', freed |-> freed']

\* C29: starting from a built tree, removeNode, moveNode, copyNode and
\* optimizeTree keep the parent relation acyclic: a call on a well-formed
\* forest never makes a node its own ancestor, also when moveNode is given a
\* newParent that is the node itself or one of its descendants, so every
\* traversal from any node terminates.
C29_MutationsKeepAcyclic ==
    [][(/\ WellFormed(Mem)
        /\ lastOp'.op \in {"removeNode", "moveNode", "copyNode", "optimizeTree"})
          => Acyclic(MemAfter)]_vars

\* no live node is listed by two nodes or twice by one, and a live node has a
\* parent reference exactly when some live node lists it, which is that parent
ExclusiveOwnership(m) ==
    \A n \in m.alive :
        LET listing == {p \in m.alive : n \in Range(Kids(m, p))}
        IN /\ Cardinality(listing) <= 1
           /\ \A p \in listing : Occurrences(Kids(m, p), n) = 1
           /\ (m.heap[n].parent # NULL) = (listing # {})
           /\ \A p \in listing : m.heap[n].parent = p

\* C30: exclusive ownership is kept by every mutation: after addChild,
\* removeChild, clearChildren, removeNode (with or without keep_children),
\* moveNode or copyNode on a well-formed forest, no live node appears in the
\* children lists of two different nodes nor twice in one list, and a node's
\* parent reference is non-null exactly when some node lists it as a child,
\* in which case it equals that node.
C30_MutationsKeepOwnershipExclusive ==
    [][(/\ WellFormed(Mem)
        /\ lastOp'.op \in {"addChild", "removeChild", "clearChildren",
                           "removeNode", "moveNode", "copyNode"}
        /\ ~crashed')
          => ExclusiveOwnership(MemAfter)]_vars

(***************************************************************************)
(* Claims about the visitors (checked under SpecVisit)                     *)
(***************************************************************************)
\* C25: with the default PSIVisitor (no method overridden), visit(root)
\* reaches visitNode exactly once for every node of the tree, whatever the
\* classes of the nodes: typed nodes and generic PSINode nodes, together with
\* all their descendants.
C25_DefaultVisitorReachesEveryNode ==
    (lastOp.op = "visit" /\ lastOp.root_ # NULL) =>
        /\ Range(result) = SubtreeSet(Mem, {lastOp.root_})
        /\ \A n \in Range(result) : Occurrences(result, n) = 1

\* C27: after FindVisitor<PSINode>(pred).visit(root) on a tree of typed nodes,
\* getFoundNode() is the first node in pre-order that satisfies pred, or null
\* when no node satisfies it, also when several nodes in different sibling
\* subtrees satisfy pred.
C27_FindVisitorFindsFirst ==
    (/\ lastOp.op = "find"
     /\ \A n \in SubtreeSet(Mem, {lastOp.root_}) : heap[n].class # "PSINode") =>
        LET matches == SelectSeq(PreOrder(Mem, lastOp.root_),
                                 LAMBDA n : lastOp.predicate[n])
        IN result = (IF matches = <<>> THEN NULL ELSE matches[1])

(***************************************************************************)
(* Claims about the store and the tree of one parse (checked under         *)
(* SpecAgree)                                                              *)
(***************************************************************************)
\* C26: for any record list, the store built by adding every record and the
\* tree built from the same records agree on the counts per kind:
\* queryByType(CLASS) returns as many records as findAllNodes(root, CLASS)
\* returns nodes, and likewise for FUNCTION, also when some type records are
\* structs.
C26_StoreAndTreeAgree ==
    (root # NULL /\ Len(all_entries) = Len(stubs)) =>
        /\ Len(queryByType("CLASS")) = Len(findAllNodes(Mem, root, "CLASS"))
        /\ Len(queryByType("FUNCTION")) = Len(findAllNodes(Mem, root, "FUNCTION"))

====
